---------------------------- MODULE Spec2Model ----------------------------
(***************************************************************************)
(* Model of the ingestion and upload control plane of asicamera2:          *)
(*   - the directory watcher's dispatch loop and the file history          *)
(*     (watcher/fileWatch.go, watcher/fileHistory.go),                     *)
(*   - the per-file debouncer (watcher/fileTask.go),                       *)
(*   - the upload semaphore of Server.Media (backend/alert.go),            *)
(*   - the credential attender and the authenticated request               *)
(*     (backend/auth.go: WatchAuth, getAuth, Do),                          *)
(*   - the two POSTs of one media upload (backend/resource.go and the      *)
(*     multipart body of httpFileRequest).                                 *)
(*                                                                         *)
(* Each part has its own specification: Spec (the watcher while its        *)
(* context is live), SpecStop (the watcher with cancellation), SpecMedia,  *)
(* SpecAuth and SpecUpload.  The variables of the other parts stay at      *)
(* their rest values.                                                      *)
(*                                                                         *)
(* Time.  All timestamps are counted in units of 1/Second of a second, so  *)
(* that rounding to whole seconds (time.Round) and the RFC3339 format of   *)
(* the history file (whole seconds) are real conversions.  The zero        *)
(* time.Time is 0.  The file system belongs to the environment: what       *)
(* os.Stat and os.Remove answer is chosen when they are called (mtime 0    *)
(* stands for a stat error).                                               *)
(*                                                                         *)
(* Timers.  The inactivity timer of a debouncer is a count-down in ticks.  *)
(* Tick advances the clock.  A goroutine parked in a select is woken by    *)
(* the first case that becomes ready (a channel send or a timer expiry     *)
(* hands the value to the parked receiver), and the steps a goroutine can  *)
(* take without blocking take no time: Tick is enabled only when every     *)
(* armed debouncer is parked.                                              *)
(***************************************************************************)
EXTENDS Naturals, Integers, Sequences, FiniteSets, TLC

\* ------------------------------------------------------------------ bounds
\* Event channels (and so debouncers) one watcher process may allocate.
MaxChans == 2
\* Events the merge task may have queued for the dispatch loop.
MaxPending == 1
\* monitorFor, in ticks.
MonitorFor == 2
\* Largest file modification time, in units of 1/Second s.
MaxMtime == 3
\* Process restarts (a new Watch loading the persisted history).
MaxRestarts == 1

\* Concurrent callers of Server.Media.
NumCallers == 3
\* Largest Config.Concurrency tried.
MaxConcurrency == 2
\* Concurrent callers of auth.Do.
NumClients == 2
\* Successful logins (each yields a new token).
MaxLogins == 2
\* Length of the multipart body of a file, in chunks.
FileLen == 2
\* Times the backend lets the session token expire during one upload.
MaxExpiries == 2
\* Folder names the coordinator delivers (watcher goroutines started).
MaxGens == 2
\* Attempts of one watcher goroutine's retry loop.
MaxAttempts == 2
\* Calls of SendAlert and ClearAlert through the server proxy.
MaxAlertCalls == 3
\* Calls of one retry loop, and failed operations within one call.
MaxCalls == 2
MaxFailures == 4
\* Polls of monitorUSB.
MaxPolls == 5
\* How long the watchdog's clock runs, in its ticks.
MaxClock == 9
\* Calls of FileHistory.Save.
MaxSaves == 2
\* Most entries (lines) of a history file.
MaxLines == 3
\* Folder names WatchFolder may emit.
MaxFolders == 3

\* time.Second, in the unit of the timestamps.
Second == 2

\* ------------------------------------------------------- program constants
\* tasks := make(chan fileTask, 16)
TasksCap == 16
\* events := make(chan fsnotify.Event, 16)
MergedCap == 16
\* task.Events = make(chan fsnotify.Event, 1)
EventsCap == 1
\* authChan := make(chan backend.AuthRequest, 16)
AuthCap == 16
\* sendOptions{maxRetries: 3}
maxRetries == 3
\* Length of the JSON body of the metadata POST, in chunks.
MetaLen == 1
\* folderChan := make(chan string, 16)
FolderCap == 16
\* time.After(30 * time.Second), in ticks of the supervisor's clock.
Thirty == 2
\* eternalBackoff: bo.InitialInterval = 1 * time.Second, bo.Multiplier = 2,
\* bo.MaxInterval = 5 * time.Minute, in seconds.
InitialInterval == 1
\* slowEternalBackoff: bo.InitialInterval = 5 * time.Second
SlowInitialInterval == 5
Multiplier == 2
MaxInterval == 300
\* cameraKeepalive: make(chan struct{}, 1)
KeepaliveCap == 1
\* time.NewTimer(24 * time.Hour), in ticks of the watchdog's clock.
Day == 3

\* The watched paths (files with a recognized extension).
Paths == {"shot.jpg"}
Chans == 1..MaxChans
NoChan == 0
Ops == {"Create", "Write", "Rename", "Remove"}
MediaCallers == 1..NumCallers
Gens == 1..MaxGens
Folders == {"A", "B"}
Kids == {"WatchAuth", "monitorUSB", "watchdog"}
Clients == 1..NumClients
AlertIds == {"X", "Y"}
Loops == {"login", "folder", "sendResource", "getResource"}

VARIABLES
    disk,        \* disk[p]: the timestamp (whole seconds) of p's line in the history file, 0 when none
    history,     \* FileHistory.history: path -> fileTask
    events,      \* the events channel read by dispatch
    tasks,       \* the tasks channel (results of the debouncers)
    chans,       \* chans[c]: the per-file event channel c: buffered events, closed
    deb,         \* deb[c]: the debouncer (fileTask.upload goroutine) spawned for channel c
    nextChan,    \* next channel to allocate
    cancelled,   \* the context passed to Watch is cancelled
    dispatchPc,  \* "loop", "wait" (deferred wg.Wait), "exited", "cleaned"
    epoch,       \* number of restarts so far
    \* Server.Media
    concurrency, \* Config.Concurrency
    queue,       \* tokens in Server.queue
    media,       \* media[k]: the call of Server.Media by caller k
    \* auth
    queries,     \* the auth channel: queries waiting for WatchAuth
    lastReply,   \* WatchAuth's lastReply
    watchPc,     \* WatchAuth: "recv", "login" (inside httpAuth), "stopped"
    serving,     \* the query WatchAuth is logging in for
    replies,     \* replies[k]: the Reply channel of client k's pending query
    client,      \* client[k]: the call of auth.Do by client k
    logins,      \* successful logins so far (the last token handed out)
    authDone,    \* the context of WatchAuth and of the clients is cancelled
    granted,     \* token of the last successful login, 0 before the first
    freshSince,  \* a fresh=true query was submitted and not yet answered by that login
    posting,     \* calls of httpAuth (POST /api/login) that have not returned
    \* one media upload
    up,          \* the metadata POST and the body POST of one Server.Media call
    \* FileHistory.Save
    sv,          \* one call of Save after the other, the temporary file and the history file
    \* watchMedia
    sup,         \* the supervisor: root context, folder coordinator, the children it started
    wt,          \* wt[g]: the goroutine watching the g-th folder name delivered
    \* alerts
    al,          \* the alert tasks started through the server proxy, the backend's alert records
    \* monitorUSB
    usb,         \* the locals of monitorUSB, its clock and the alerts it has issued
    \* the 24-hour watchdog
    wd,          \* the keepalive channel, the watchdog goroutine, the time since the last attempt
    \* the retry loops
    bo,          \* bo[l]: the backoff state of retry loop l and the call it serves
    \* one upload seen from the debouncer
    sr,          \* fileTask.triggered from its call of Upload: Media and its two sendResource calls
    \* FileHistory.Remap
    rm,          \* one call of Remap: the map, the files behind its entries, the expiration
    \* httpFileRequest
    fc,          \* one multipart body: its producer, its pipe, its readers and the calls of Close
    \* WatchFolder
    wf,          \* WatchFolder with the answers to its GET /api/camera/<id>, and the watchers started
    \* FileWatch.merge
    mg           \* the merge goroutine of Watch, the events channel it fills and the dispatch loop

watcherVars == <<disk, history, events, tasks, chans, deb, nextChan, cancelled,
                 dispatchPc, epoch>>
mediaVars == <<concurrency, queue, media>>
authVars == <<queries, lastReply, watchPc, serving, replies, client, logins,
              authDone, granted, freshSince, posting>>
extVars == <<rm, fc, wf, mg>>
auxVars == <<al, usb, wd, bo, sr, extVars>>
ctlVars == <<sv, sup, wt, auxVars>>
backendVars == <<mediaVars, authVars, up, ctlVars>>
vars == <<watcherVars, mediaVars, authVars, up, ctlVars>>

\* ------------------------------------------------------------- time values
\* time.Time.Round(time.Second): to the nearest second, halfway values up.
Round(t) == ((t + Second \div 2) \div Second) * Second

\* Time.Format(time.RFC3339): the whole seconds of t (sub-second part dropped).
FormatRFC3339(t) == t \div Second

\* time.Parse(time.RFC3339, s)
ParseRFC3339(s) == s * Second

\* ------------------------------------------------------------ file history
NoTask == [present |-> FALSE, Uploaded |-> 0, Events |-> NoChan]

IdleDeb == [pc |-> "idle", Path |-> "", Uploaded |-> 0, timer |-> 0,
            start |-> 0, mtime |-> 0, modtime |-> 0, since |-> 0,
            trig |-> 0, uploads |-> 0, alerts |-> 0, sawClose |-> FALSE,
            result |-> "none"]

\* panic: the channel was closed twice or sent to after its close.
OpenChan == [buf |-> 0, closed |-> FALSE, panic |-> FALSE]

\* close(ch)
Close(cs, c) == [cs EXCEPT ![c].closed = TRUE, ![c].panic = @ \/ cs[c].closed]

\* FileHistory.Load: one entry per line of the history file whose file still
\* exists, with the parsed timestamp and no event channel.
Load(d, exist) ==
    [p \in Paths |->
        IF d[p] # 0 /\ p \in exist
        THEN [present |-> TRUE, Uploaded |-> ParseRFC3339(d[p]), Events |-> NoChan]
        ELSE NoTask]

\* FileHistory.Save, the contents written: a line per entry whose Uploaded is
\* not the zero time.
SaveLines(h) ==
    [p \in Paths |->
        IF h[p].present /\ h[p].Uploaded # 0 THEN FormatRFC3339(h[p].Uploaded) ELSE 0]

\* FileHistory.RemoveTask
RemoveTask(h, p) == [h EXCEPT ![p] = NoTask]

RemoveTaskChans(h, cs, p) ==
    IF h[p].present /\ h[p].Events # NoChan THEN Close(cs, h[p].Events) ELSE cs

\* A CompleteTask that closes the channel and leaves it in the entry.
CompleteTaskKeep(h, task) ==
    LET original == IF h[task.Path].present THEN h[task.Path]
                    ELSE [present |-> TRUE, Uploaded |-> 0, Events |-> NoChan]
    IN [h EXCEPT ![task.Path] =
            IF task.Uploaded # 0 THEN [original EXCEPT !.Uploaded = task.Uploaded]
            ELSE original]

\* FileHistory.CompleteTask: the entry after the result `task` is processed.
CompleteTask(h, task) ==
    LET original == IF h[task.Path].present
                    THEN [h[task.Path] EXCEPT !.Events = NoChan]
                    ELSE [present |-> TRUE, Uploaded |-> 0, Events |-> NoChan]
    IN [h EXCEPT ![task.Path] =
            IF task.Uploaded # 0 THEN [original EXCEPT !.Uploaded = task.Uploaded]
            ELSE original]

\* FileHistory.CompleteTask: the channel it closes is the one the entry holds.
CompleteTaskChans(h, cs, task) ==
    IF h[task.Path].present /\ h[task.Path].Events # NoChan
    THEN Close(cs, h[task.Path].Events)
    ELSE cs

\* FileHistory.Cleanup
CleanupChans(h, cs) ==
    [c \in Chans |->
        IF \E p \in Paths : h[p].present /\ h[p].Events = c
        THEN Close(cs, c)[c] ELSE cs[c]]

\* ------------------------------------------------------------------- Init
WatcherInit ==
    /\ disk = [p \in Paths |-> 0]
    /\ history = [p \in Paths |-> NoTask]
    /\ events = <<>>
    /\ tasks = <<>>
    /\ chans = [c \in Chans |-> OpenChan]
    /\ deb = [c \in Chans |-> IdleDeb]
    /\ nextChan = 1
    /\ cancelled = FALSE
    /\ dispatchPc = "loop"
    /\ epoch = 0

\* ------------------------------------------------------------ environment
\* FileWatch.merge and the screen closure of Watch: an event of fsnotify or
\* of the scan, for a file with a recognized extension, is forwarded to the
\* events channel (a Create event only when the file can be stat'ed and is
\* no directory).
Merge(op, p) ==
    /\ dispatchPc \in {"loop", "wait"}
    /\ Len(events) < MaxPending
    /\ events' = Append(events, [Op |-> op, Name |-> p])
    /\ UNCHANGED <<disk, history, tasks, chans, deb, nextChan, cancelled,
                   dispatchPc, epoch>>
    /\ UNCHANGED backendVars

\* The context of Watch is cancelled.
Cancel ==
    /\ ~cancelled
    /\ cancelled' = TRUE
    /\ UNCHANGED <<disk, history, events, tasks, chans, deb, nextChan,
                   dispatchPc, epoch>>
    /\ UNCHANGED backendVars


\* The process is stopped and started again: Watch loads the persisted
\* history; no goroutine and no channel of the old process survives.
Restart ==
    /\ epoch < MaxRestarts
    /\ epoch' = epoch + 1
    /\ \E exist \in SUBSET Paths : history' = Load(disk, exist)
    /\ events' = <<>>
    /\ tasks' = <<>>
    /\ chans' = [c \in Chans |-> OpenChan]
    /\ deb' = [c \in Chans |-> IdleDeb]
    /\ nextChan' = 1
    /\ cancelled' = FALSE
    /\ dispatchPc' = "loop"
    /\ UNCHANGED <<disk, backendVars>>

\* ---------------------------------------------------- FileWatch.dispatch
\* FileHistory.CreateTask: the channel the event goes to; a new one when the
\* entry has none.
CreateTaskChan(h, p) ==
    IF h[p].present /\ h[p].Events # NoChan THEN h[p].Events ELSE nextChan

CreateTaskNew(h, p) == ~(h[p].present /\ h[p].Events # NoChan)

CreateTask(h, p) ==
    [h EXCEPT ![p] = [present |-> TRUE,
                      Uploaded |-> IF h[p].present THEN h[p].Uploaded ELSE 0,
                      Events |-> CreateTaskChan(h, p)]]

\* select { case task.Events <- event: default: }
Push(cs, c) ==
    IF cs[c].closed THEN [cs EXCEPT ![c].panic = TRUE]
    ELSE IF cs[c].buf < EventsCap
         THEN [cs EXCEPT ![c].buf = cs[c].buf + 1] ELSE cs

\* case task := <-tasks: CompleteTask(task); Save().  Save may fail (the
\* temporary file cannot be created or renamed): the history file is then
\* left as it was.
DispatchTask(saveOk) ==
    /\ dispatchPc = "loop"
    /\ tasks # <<>>
    /\ LET task == Head(tasks) IN
         /\ history' = CompleteTask(history, task)
         /\ chans' = CompleteTaskChans(history, chans, task)
    /\ tasks' = Tail(tasks)
    /\ disk' = IF saveOk THEN SaveLines(history') ELSE disk
    /\ UNCHANGED <<events, deb, nextChan, cancelled, dispatchPc, epoch>>
    /\ UNCHANGED backendVars

\* case event := <-events, a Remove event.
DispatchRemove ==
    /\ dispatchPc = "loop"
    /\ events # <<>>
    /\ Head(events).Op = "Remove"
    /\ LET p == Head(events).Name IN
         /\ history' = RemoveTask(history, p)
         /\ chans' = RemoveTaskChans(history, chans, p)
    /\ events' = Tail(events)
    /\ UNCHANGED <<disk, tasks, deb, nextChan, cancelled, dispatchPc, epoch>>
    /\ UNCHANGED backendVars

\* case event := <-events, a Create, Write or Rename event: CreateTask, the
\* non-blocking push of the event, and the spawn of a debouncer when the
\* channel is new.
DispatchUpdate ==
    /\ dispatchPc = "loop"
    /\ events # <<>>
    /\ Head(events).Op \in {"Create", "Write", "Rename"}
    /\ LET p == Head(events).Name
           c == CreateTaskChan(history, p)
           new == CreateTaskNew(history, p)
           delivered == chans[c].buf < EventsCap
       IN
         /\ new => nextChan <= MaxChans
         /\ history' = CreateTask(history, p)
         /\ nextChan' = IF new THEN nextChan + 1 ELSE nextChan
         /\ chans' = Push(chans, c)
         /\ deb' = IF new
                   THEN [deb EXCEPT ![c] = [IdleDeb EXCEPT !.pc = "spawned",
                                              !.Path = p,
                                              !.Uploaded = history'[p].Uploaded,
                                              !.start = history'[p].Uploaded]]
                   ELSE IF delivered /\ deb[c].pc \in {"spawned", "armed"}
                        THEN [deb EXCEPT ![c].since = 0]
                        ELSE deb
    /\ events' = Tail(events)
    /\ UNCHANGED <<disk, tasks, cancelled, dispatchPc, epoch>>
    /\ UNCHANGED backendVars

\* case <-remap.C: FileHistory.Remap.  `dropped` are the entries found
\* expired (none unless expiration > 0) whose file os.Remove removed or found
\* missing, or that turned out to be a directory: they are left out of the
\* new map, with the channel they hold.
Remap(h, dropped) == [p \in Paths |-> IF p \in dropped THEN NoTask ELSE h[p]]

DispatchRemap ==
    /\ dispatchPc = "loop"
    /\ \E dropped \in SUBSET {p \in Paths : history[p].present /\ history[p].Uploaded # 0} :
         /\ dropped # {}
         /\ history' = Remap(history, dropped)
    /\ UNCHANGED <<disk, events, tasks, chans, deb, nextChan, cancelled,
                   dispatchPc, epoch>>
    /\ UNCHANGED backendVars

\* case <-ctx.Done(): return; the deferred function then waits for the
\* debouncers.
DispatchCancel ==
    /\ dispatchPc = "loop"
    /\ cancelled
    /\ dispatchPc' = "wait"
    /\ UNCHANGED <<disk, history, events, tasks, chans, deb, nextChan,
                   cancelled, epoch>>
    /\ UNCHANGED backendVars

\* The deferred function of dispatch: wg.Wait() returns when every debouncer
\* has returned; tasks is closed and exhausted.
DispatchJoin ==
    /\ dispatchPc = "wait"
    /\ \A c \in Chans : deb[c].pc \in {"idle", "done"}
    /\ tasks' = <<>>
    /\ dispatchPc' = "exited"
    /\ UNCHANGED <<disk, history, events, chans, deb, nextChan, cancelled,
                   epoch>>
    /\ UNCHANGED backendVars

\* The deferred FileHistory.Cleanup of Watch, after wg.Wait().
Cleanup ==
    /\ dispatchPc = "exited"
    /\ chans' = CleanupChans(history, chans)
    /\ history' = [p \in Paths |-> NoTask]
    /\ dispatchPc' = "cleaned"
    /\ UNCHANGED <<disk, events, tasks, deb, nextChan, cancelled, epoch>>
    /\ UNCHANGED backendVars


\* --------------------------------------------------------- fileTask.upload
\* The goroutine starts: inactivity := time.NewTimer(monitorFor).
DebStart(c) ==
    /\ deb[c].pc = "spawned"
    /\ deb' = [deb EXCEPT ![c].pc = "armed", ![c].timer = MonitorFor]
    /\ UNCHANGED <<disk, history, events, tasks, chans, nextChan,
                   cancelled, dispatchPc, epoch>>
    /\ UNCHANGED backendVars

\* case _, ok := <-t.Events with ok: the inactivity timer is stopped and
\* reset.
uploadEvent(d) == [d EXCEPT !.timer = MonitorFor]

DebEvent(c) ==
    /\ deb[c].pc = "armed"
    /\ chans[c].buf > 0
    /\ chans' = [chans EXCEPT ![c].buf = chans[c].buf - 1]
    /\ deb' = [deb EXCEPT ![c] = uploadEvent(deb[c])]
    /\ UNCHANGED <<disk, history, events, tasks, nextChan, cancelled,
                   dispatchPc, epoch>>
    /\ UNCHANGED backendVars

\* case _, ok := <-t.Events with !ok: the file was removed, return.
DebClosed(c) ==
    /\ deb[c].pc = "armed"
    /\ chans[c].buf = 0
    /\ chans[c].closed
    /\ deb' = [deb EXCEPT ![c].pc = "sending", ![c].sawClose = TRUE,
                          ![c].result = "closed"]
    /\ UNCHANGED <<disk, history, events, tasks, chans, nextChan,
                   cancelled, dispatchPc, epoch>>
    /\ UNCHANGED backendVars

\* A debouncer whose deferred function drains the channel without having
\* sent the result.
triggeredLost(d, mtime) == [d EXCEPT !.pc = "draining", !.result = "none"]

\* fileTask.triggered up to the call of server.Upload: stat, round, compare.
\* A failed stat sends the upload_file alert (the deferred function).
triggeredStat(d, mtime) ==
    IF mtime = 0
    THEN [d EXCEPT !.pc = "sending", !.alerts = d.alerts + 1, !.result = "staterr"]
    ELSE IF ~(Round(mtime) > d.Uploaded)
         THEN [d EXCEPT !.pc = "sending", !.mtime = mtime,
                        !.modtime = Round(mtime), !.result = "dropped"]
         ELSE [d EXCEPT !.pc = "uploading", !.mtime = mtime,
                        !.modtime = Round(mtime), !.uploads = d.uploads + 1]

DebStat(c, mtime) ==
    /\ deb[c].pc = "triggered"
    /\ deb' = [deb EXCEPT ![c] = triggeredStat(deb[c], mtime)]
    /\ UNCHANGED <<disk, history, events, tasks, chans, nextChan,
                   cancelled, dispatchPc, epoch>>
    /\ UNCHANGED backendVars

\* The other draft of fileTask.triggered, which returns modtime as it is.
triggeredNoBump(d, ok) ==
    IF ok
    THEN [d EXCEPT !.pc = "sending", !.Uploaded = d.modtime, !.result = "ok"]
    ELSE [d EXCEPT !.pc = "sending", !.alerts = d.alerts + 1, !.result = "failed"]

\* fileTask.triggered from the return of server.Upload: on success the
\* result is modtime + 1 s, on failure the alert is sent and the result is
\* t.Uploaded.
triggeredUploaded(d, ok) ==
    IF ok
    THEN [d EXCEPT !.pc = "sending", !.Uploaded = d.modtime + Second, !.result = "ok"]
    ELSE [d EXCEPT !.pc = "sending", !.alerts = d.alerts + 1, !.result = "failed"]

DebUploaded(c, ok) ==
    /\ deb[c].pc = "uploading"
    /\ deb' = [deb EXCEPT ![c] = triggeredUploaded(deb[c], ok)]
    /\ UNCHANGED <<disk, history, events, tasks, chans, nextChan,
                   cancelled, dispatchPc, epoch>>
    /\ UNCHANGED backendVars

\* The deferred function of upload: tasks <- t.
uploadResult(c) ==
    [Path |-> deb[c].Path, Uploaded |-> deb[c].Uploaded, Events |-> c,
     result |-> deb[c].result, mtime |-> deb[c].mtime]

DebSend(c) ==
    /\ deb[c].pc = "sending"
    /\ Len(tasks) < TasksCap
    /\ tasks' = Append(tasks, uploadResult(c))
    /\ deb' = [deb EXCEPT ![c].pc = "draining"]
    /\ UNCHANGED <<disk, history, events, chans, nextChan, cancelled,
                   dispatchPc, epoch>>
    /\ UNCHANGED backendVars

\* The deferred function of upload: for range t.Events {}.
DebDrain(c) ==
    /\ deb[c].pc = "draining"
    /\ \/ /\ chans[c].buf > 0
          /\ chans' = [chans EXCEPT ![c].buf = chans[c].buf - 1]
          /\ deb' = deb
       \/ /\ chans[c].buf = 0
          /\ chans[c].closed
          /\ chans' = chans
          /\ deb' = [deb EXCEPT ![c] = [IdleDeb EXCEPT !.pc = "done", !.Path = deb[c].Path]]
    /\ UNCHANGED <<disk, history, events, tasks, nextChan, cancelled,
                   dispatchPc, epoch>>
    /\ UNCHANGED backendVars

\* One tick of the clock: the inactivity timers of the parked debouncers run
\* down; a timer that expires wakes its debouncer with case <-inactivity.C.
Parked(c) == deb[c].pc = "armed" /\ chans[c].buf = 0 /\ ~chans[c].closed

Bump(n) == IF n < MonitorFor THEN n + 1 ELSE n

uploadTick(d) ==
    IF d.timer > 1
    THEN [d EXCEPT !.timer = d.timer - 1, !.since = Bump(d.since)]
    ELSE [d EXCEPT !.timer = 0, !.since = Bump(d.since), !.pc = "triggered",
                   !.trig = d.trig + 1]

Tick ==
    /\ \A c \in Chans : deb[c].pc \in {"spawned", "armed"} => Parked(c)
    /\ \E c \in Chans : Parked(c)
    /\ deb' = [c \in Chans |-> IF Parked(c) THEN uploadTick(deb[c]) ELSE deb[c]]
    /\ UNCHANGED <<disk, history, events, tasks, chans, nextChan,
                   cancelled, dispatchPc, epoch>>
    /\ UNCHANGED backendVars


\* ------------------------------------------------------------ Server.Media
\* New: a Concurrency below 1 counts as 1; the queue starts full of tokens.
New(c) == IF c < 1 THEN 1 ELSE c

IdleMedia == [pc |-> "idle", ret |-> "none"]

\* A Media that returns without its deferred function.
keepToken(q) == q

\* The deferred function of Media: s.queue <- struct{}{}.
releaseToken(q) == q + 1

\* Media is called.  A mime type that is neither video nor image returns
\* UnknownMediaTypeError before the token is asked for.
MediaCall(k, known) ==
    /\ media[k].pc = "idle"
    /\ media' = [media EXCEPT ![k] =
                    IF known THEN [pc |-> "acquire", ret |-> "none"]
                    ELSE [pc |-> "idle", ret |-> "UnknownMediaTypeError"]]
    /\ UNCHANGED <<concurrency, queue>>
    /\ UNCHANGED <<watcherVars, authVars, up, ctlVars>>

\* <-s.queue
MediaAcquire(k) ==
    /\ media[k].pc = "acquire"
    /\ queue > 0
    /\ queue' = queue - 1
    /\ media' = [media EXCEPT ![k].pc = "stat"]
    /\ UNCHANGED concurrency
    /\ UNCHANGED <<watcherVars, authVars, up, ctlVars>>

\* os.Stat(path)
MediaStat(k, ok) ==
    /\ media[k].pc = "stat"
    /\ media' = [media EXCEPT ![k] =
                    IF ok THEN [pc |-> "metadata", ret |-> "none"]
                    ELSE [pc |-> "release", ret |-> "stat"]]
    /\ UNCHANGED <<concurrency, queue>>
    /\ UNCHANGED <<watcherVars, authVars, up, ctlVars>>

\* sendResource(media): nil, an error of the backend, or the context error.
MediaMetadata(k, out) ==
    /\ media[k].pc = "metadata"
    /\ media' = [media EXCEPT ![k] =
                    IF out = "ok" THEN [pc |-> "contents", ret |-> "none"]
                    ELSE [pc |-> "release", ret |-> out]]
    /\ UNCHANGED <<concurrency, queue>>
    /\ UNCHANGED <<watcherVars, authVars, up, ctlVars>>

\* sendResource(fileReq)
MediaContents(k, out) ==
    /\ media[k].pc = "contents"
    /\ media' = [media EXCEPT ![k] = [pc |-> "release", ret |-> out]]
    /\ UNCHANGED <<concurrency, queue>>
    /\ UNCHANGED <<watcherVars, authVars, up, ctlVars>>

\* Media returns: the deferred function gives the token back.
MediaRelease(k) ==
    /\ media[k].pc = "release"
    /\ queue < New(concurrency)
    /\ queue' = releaseToken(queue)
    /\ media' = [media EXCEPT ![k].pc = "idle"]
    /\ UNCHANGED concurrency
    /\ UNCHANGED <<watcherVars, authVars, up, ctlVars>>

\* --------------------------------------------------------------- WatchAuth
NoReply == [full |-> FALSE, Token |-> 0, Cached |-> FALSE, Err |-> FALSE, fresh |-> FALSE]

NoQuery == [from |-> 0, fresh |-> FALSE]

ZeroReply == [Token |-> 0, Cached |-> FALSE, Err |-> FALSE]

IdleClient == [pc |-> "idle", Token |-> 0, Cached |-> FALSE, sends |-> 0,
               freshCalls |-> 0, gotFresh |-> FALSE, first |-> "none",
               second |-> "none", ret |-> "none"]

\* What a.client.Do gives: a response with its status, or an error ("err").
\* The error of getAuth is "error".
Statuses == {"200", "401", "403", "err"}

\* A WatchAuth that logs in for every query.
AlwaysLogin(fresh, token) == TRUE

\* if query.fresh || lastReply.Token == ""
NeedLogin(fresh, token) == fresh \/ token = 0

\* httpAuth is entered: one more POST /api/login is under way.
httpAuthEnter(n) == n + 1

\* A WatchAuth that goes on to the next query while httpAuth is under way.
httpAuthDetached(n) == n

\* httpAuth has returned (with a token, or with the context error).
httpAuthReturn(n) == n - 1

\* query.Reply <- lastReply
Answer(rs, q, reply) ==
    [rs EXCEPT ![q.from] = [full |-> TRUE, Token |-> reply.Token,
                            Cached |-> reply.Cached, Err |-> reply.Err,
                            fresh |-> q.fresh]]

\* case query := <-queries: a query that needs no login is answered with
\* lastReply, which is then marked as cached; one that does enters httpAuth.
WatchQuery ==
    /\ watchPc = "recv"
    /\ queries # <<>>
    /\ LET q == Head(queries) IN
         IF NeedLogin(q.fresh, lastReply.Token)
         THEN /\ watchPc' = "login"
              /\ serving' = q
              /\ UNCHANGED <<lastReply, replies>>
         ELSE /\ replies' = Answer(replies, q, lastReply)
              /\ lastReply' = [lastReply EXCEPT !.Cached = TRUE]
              /\ UNCHANGED <<watchPc, serving>>
    /\ queries' = Tail(queries)
    /\ posting' = IF NeedLogin(Head(queries).fresh, lastReply.Token)
                  THEN httpAuthEnter(posting) ELSE posting
    /\ UNCHANGED <<client, logins, authDone, granted, freshSince>>
    /\ UNCHANGED <<watcherVars, mediaVars, up, ctlVars>>

\* httpAuth returns.  It retries until the login succeeds; it fails only
\* when the context is cancelled.  The reply is sent and marked as cached.
WatchLogin(ok) ==
    /\ watchPc = "login"
    /\ IF ok THEN ~authDone /\ logins < MaxLogins ELSE authDone
    /\ LET reply == IF ok THEN [Token |-> logins + 1, Cached |-> FALSE, Err |-> FALSE]
                    ELSE [Token |-> 0, Cached |-> FALSE, Err |-> TRUE]
       IN /\ replies' = Answer(replies, serving, reply)
          /\ lastReply' = [reply EXCEPT !.Cached = TRUE]
    /\ logins' = IF ok THEN logins + 1 ELSE logins
    /\ granted' = IF ok THEN logins + 1 ELSE granted
    /\ freshSince' = IF ok THEN \E i \in 1..Len(queries) : queries[i].fresh
                     ELSE freshSince
    /\ watchPc' = "recv"
    /\ serving' = NoQuery
    /\ posting' = httpAuthReturn(posting)
    /\ UNCHANGED <<queries, client, authDone>>
    /\ UNCHANGED <<watcherVars, mediaVars, up, ctlVars>>

\* case <-ctx.Done(): return
WatchDone ==
    /\ watchPc = "recv"
    /\ authDone
    /\ watchPc' = "stopped"
    /\ UNCHANGED <<queries, lastReply, serving, replies, client, logins,
                   authDone, granted, freshSince, posting>>
    /\ UNCHANGED <<watcherVars, mediaVars, up, ctlVars>>

\* The context is cancelled.
AuthCancel ==
    /\ ~authDone
    /\ authDone' = TRUE
    /\ UNCHANGED <<queries, lastReply, watchPc, serving, replies, client,
                   logins, granted, freshSince, posting>>
    /\ UNCHANGED <<watcherVars, mediaVars, up, ctlVars>>

\* ----------------------------------------------------------------- auth.Do
\* A Do that retries after 401 only.
RetryOn401(status, cached) == status = "401" /\ cached

\* A Do that retries after any denial, cached token or not.
RetryAnyDenial(status, cached) == status \in {"401", "403"}

\* (resp.StatusCode == 401 || resp.StatusCode == 403) && reply.Cached
ShouldRetry(status, cached) == status \in {"401", "403"} /\ cached

\* Do is called with a live context: getAuth(ctx, false, auth) is entered.
DoCall(k) ==
    /\ client[k].pc \in {"idle", "returned"}
    /\ ~authDone
    /\ client' = [client EXCEPT ![k] = [IdleClient EXCEPT !.pc = "getAuth"]]
    /\ replies' = [replies EXCEPT ![k] = NoReply]
    /\ UNCHANGED <<queries, lastReply, watchPc, serving, logins, authDone,
                   granted, freshSince, posting>>
    /\ UNCHANGED <<watcherVars, mediaVars, up, ctlVars>>

\* getAuth: case queries <- query
GetAuthSend(k) ==
    /\ client[k].pc \in {"getAuth", "getFresh"}
    /\ Len(queries) < AuthCap
    /\ LET fresh == client[k].pc = "getFresh" IN
         /\ queries' = Append(queries, [from |-> k, fresh |-> fresh])
         /\ freshSince' = (freshSince \/ fresh)
         /\ client' = [client EXCEPT ![k].pc = IF fresh THEN "waitFresh" ELSE "wait"]
    /\ UNCHANGED <<lastReply, watchPc, serving, replies, logins, authDone, granted,
                   posting>>
    /\ UNCHANGED <<watcherVars, mediaVars, up, ctlVars>>

\* getAuth: case <-ctx.Done(), before or after the query is sent: Do returns
\* the context error.
GetAuthCancelled(k) ==
    /\ client[k].pc \in {"getAuth", "wait", "getFresh", "waitFresh"}
    /\ authDone
    /\ client' = [client EXCEPT ![k].pc = "returned", ![k].ret = "error"]
    /\ UNCHANGED <<queries, lastReply, watchPc, serving, replies, logins,
                   authDone, granted, freshSince, posting>>
    /\ UNCHANGED <<watcherVars, mediaVars, up, ctlVars>>

\* getAuth: case reply := <-query.Reply.  A reply with an error makes Do
\* return it; otherwise Do sets the Authorization header.
GetAuthReply(k) ==
    /\ client[k].pc \in {"wait", "waitFresh"}
    /\ replies[k].full
    /\ client' = [client EXCEPT ![k] =
          IF replies[k].Err
          THEN [@ EXCEPT !.pc = "returned", !.ret = "error"]
          ELSE IF @.pc = "wait"
               THEN [@ EXCEPT !.pc = "send", !.Token = replies[k].Token,
                              !.Cached = replies[k].Cached]
               ELSE [@ EXCEPT !.pc = "resend", !.Token = replies[k].Token,
                              !.gotFresh = TRUE]]
    /\ replies' = [replies EXCEPT ![k] = NoReply]
    /\ UNCHANGED <<queries, lastReply, watchPc, serving, logins, authDone,
                   granted, freshSince, posting>>
    /\ UNCHANGED <<watcherVars, mediaVars, up, ctlVars>>

\* resp, err := a.client.Do(req) and the decision that follows it.
DoFirst(c, status) ==
    IF status = "err"
    THEN [c EXCEPT !.pc = "returned", !.sends = c.sends + 1, !.first = status,
                   !.ret = status]
    ELSE IF ShouldRetry(status, c.Cached)
         THEN [c EXCEPT !.pc = "getFresh", !.sends = c.sends + 1,
                        !.first = status, !.freshCalls = c.freshCalls + 1]
         ELSE [c EXCEPT !.pc = "returned", !.sends = c.sends + 1,
                        !.first = status, !.ret = status]

DoSend(k, status) ==
    /\ client[k].pc = "send"
    /\ client' = [client EXCEPT ![k] = DoFirst(client[k], status)]
    /\ UNCHANGED <<queries, lastReply, watchPc, serving, replies, logins,
                   authDone, granted, freshSince, posting>>
    /\ UNCHANGED <<watcherVars, mediaVars, up, ctlVars>>

\* return a.client.Do(req), with the fresh token.
DoSecond(c, status) ==
    [c EXCEPT !.pc = "returned", !.sends = c.sends + 1, !.second = status,
              !.ret = status]

DoResend(k, status) ==
    /\ client[k].pc = "resend"
    /\ client' = [client EXCEPT ![k] = DoSecond(client[k], status)]
    /\ UNCHANGED <<queries, lastReply, watchPc, serving, replies, logins,
                   authDone, granted, freshSince, posting>>
    /\ UNCHANGED <<watcherVars, mediaVars, up, ctlVars>>

\* -------------------------------------------------------- one media upload
\* The part of Server.Media between the stat and the return: sendResource
\* of the metadata, then sendResource of the file (onlyPost), each attempt
\* going through auth.Do.  The body of a request is a stream: `read` of its
\* `len` chunks have been taken from it, and the transport closes it when
\* the round trip ends (possibly after Do has gone on).
UpStart ==
    [phase |-> "metadata", doPc |-> "build", retries |-> 0,
     len |-> 0, read |-> 0, closed |-> FALSE,
     haveToken |-> FALSE, tokenOk |-> FALSE, cached |-> FALSE, lastCached |-> FALSE,
     expiries |-> 0, metaPosts |-> 0, metaAtBody |-> 0, bodyPosts |-> 0,
     relogins |-> 0,
     denied |-> FALSE, resent |-> FALSE, carried |-> 0, ret |-> "none"]

BodyLen(phase) == IF phase = "metadata" THEN MetaLen ELSE FileLen

\* What sendResource does with the response of Do: 200, 201 and 204 end it;
\* any other status is an error, retried while retries are left (a file
\* has no PUT).
UpOutcome(u, status) ==
    IF status \in {"200", "201", "204"}
    THEN IF u.phase = "metadata"
         THEN [u EXCEPT !.phase = "contents", !.doPc = "build", !.retries = 0,
                        !.metaAtBody = u.metaPosts, !.relogins = 0,
                        !.denied = FALSE, !.resent = FALSE, !.carried = 0]
         ELSE [u EXCEPT !.phase = "done", !.doPc = "none", !.ret = "ok"]
    ELSE IF u.retries < maxRetries
         THEN [u EXCEPT !.doPc = "build", !.retries = u.retries + 1]
         ELSE [u EXCEPT !.phase = "done", !.doPc = "none", !.ret = "error"]

\* The answer of the backend to a POST that carried n of len chunks.
Backend(tokenOk, n, len) ==
    IF ~tokenOk THEN "401" ELSE IF n = len THEN "201" ELSE "400"

\* One attempt of sendResource begins: resource.PostBody() gives a new
\* stream, and Do asks for the credentials (fresh=false): the first query
\* logs in, the next ones get the cached token.
UpBuild ==
    /\ up.phase \in {"metadata", "contents"}
    /\ up.doPc = "build"
    /\ up' = [up EXCEPT !.doPc = "send", !.len = BodyLen(up.phase), !.read = 0,
                        !.closed = FALSE,
                        !.haveToken = TRUE,
                        !.tokenOk = IF up.haveToken THEN up.tokenOk ELSE TRUE,
                        !.cached = IF up.haveToken THEN up.lastCached ELSE FALSE,
                        !.lastCached = TRUE, !.relogins = 0,
                        !.denied = FALSE, !.resent = FALSE, !.carried = 0]
    /\ UNCHANGED <<watcherVars, mediaVars, authVars, ctlVars>>

\* The backend stops accepting the token the client holds.
UpExpire ==
    /\ up.phase \in {"metadata", "contents"}
    /\ up.haveToken /\ up.tokenOk
    /\ up.expiries < MaxExpiries
    /\ up' = [up EXCEPT !.tokenOk = FALSE, !.expiries = up.expiries + 1]
    /\ UNCHANGED <<watcherVars, mediaVars, authVars, ctlVars>>

\* The first a.client.Do(req) of Do.  A backend that accepts the token reads
\* the whole body; one that does not may answer after n chunks.
UpSend(n, closedNow) ==
    /\ up.doPc = "send"
    /\ n \in 0..up.len
    /\ up.tokenOk => n = up.len
    /\ LET status == Backend(up.tokenOk, n, up.len)
           sent == [up EXCEPT !.read = n, !.closed = closedNow,
                              !.metaPosts = IF up.phase = "metadata" THEN @ + 1 ELSE @,
                              !.bodyPosts = IF up.phase = "contents" THEN @ + 1 ELSE @]
       IN up' = IF ShouldRetry(status, up.cached)
                THEN [sent EXCEPT !.doPc = "login", !.denied = TRUE]
                ELSE UpOutcome(sent, status)
    /\ UNCHANGED <<watcherVars, mediaVars, authVars, ctlVars>>

\* getAuth(ctx, true, auth): WatchAuth logs in again.
UpLogin ==
    /\ up.doPc = "login"
    /\ up' = [up EXCEPT !.doPc = "resend", !.tokenOk = TRUE, !.lastCached = TRUE,
                        !.relogins = up.relogins + 1]
    /\ UNCHANGED <<watcherVars, mediaVars, authVars, ctlVars>>

\* What is left in the stream of the request that was already sent.
\* httpFileRequest.Close sets pipeReader to nil, so that a Read after it
\* dereferences nil; the NopCloser of the metadata never closes.
Remainder(u) == u.len - u.read

ReadPanics(u) == u.phase = "contents" /\ u.closed

\* return a.client.Do(req): the same request, with the body it has left.
UpResend ==
    /\ up.doPc = "resend"
    /\ up' = IF ReadPanics(up)
             THEN [up EXCEPT !.phase = "crashed", !.doPc = "none", !.resent = TRUE]
             ELSE LET status == Backend(up.tokenOk, Remainder(up), up.len)
                      sent == [up EXCEPT !.resent = TRUE, !.carried = Remainder(up),
                                         !.read = up.len,
                                         !.metaPosts = IF up.phase = "metadata" THEN @ + 1 ELSE @,
                                         !.bodyPosts = IF up.phase = "contents" THEN @ + 1 ELSE @]
                  IN UpOutcome(sent, status)
    /\ UNCHANGED <<watcherVars, mediaVars, authVars, ctlVars>>

\* -------------------------------------------------------- FileHistory.Save
\* The history file at its final path is `final`: written by Save number
\* `by` (0: the file found at start), holding `lines` of the `of` lines of the
\* CSV that Save had to write.  The temporary file holds tmpLines lines;
\* `buffered` lines are in the bufio.Writer; werr is the error the
\* bufio.Writer keeps once a write has failed.
SaveStart ==
    [pc |-> "idle", n |-> 0, want |-> 0, tmp |-> FALSE, tmpLines |-> 0,
     buffered |-> 0, werr |-> FALSE, handed |-> 0,
     final |-> [by |-> 0, lines |-> 1, of |-> 1],
     ret |-> "none", renameFailed |-> FALSE]

\* The part of the data that tells the calls of Save from the rest.
saveRest == <<watcherVars, mediaVars, authVars, up, sup, wt, auxVars>>

\* Save is called with `want` entries to write.
SaveCall(want) ==
    /\ sv.pc = "idle"
    /\ sv.n < MaxSaves
    /\ sv' = [sv EXCEPT !.pc = "create", !.n = sv.n + 1, !.want = want,
                        !.tmp = FALSE, !.tmpLines = 0, !.buffered = 0,
                        !.werr = FALSE, !.handed = 0, !.ret = "none",
                        !.renameFailed = FALSE]
    /\ UNCHANGED saveRest

\* ioutil.TempFile: an error makes Save return it.
SaveTempFile(ok) ==
    /\ sv.pc = "create"
    /\ sv' = IF ok THEN [sv EXCEPT !.pc = "write", !.tmp = TRUE]
                   ELSE [sv EXCEPT !.pc = "idle", !.ret = "error"]
    /\ UNCHANGED saveRest

\* bufio.Writer: what is in the buffer goes to the file; a failed write is
\* kept as the error of the Writer, which then accepts no more data.
bufioWrite(v, ok) ==
    IF v.werr THEN v
    ELSE IF ok THEN [v EXCEPT !.tmpLines = v.tmpLines + v.buffered, !.buffered = 0]
         ELSE [v EXCEPT !.buffered = 0, !.werr = TRUE]

\* One turn of the loop: the line of an entry is handed to the Writer, which
\* keeps it in its buffer or (buffer full) writes the buffer to the file.
\* The results of WriteString are not looked at.
SaveWriteString(full, ok) ==
    /\ sv.pc = "write"
    /\ sv.handed < sv.want
    /\ LET took == IF sv.werr THEN sv
                   ELSE [sv EXCEPT !.buffered = sv.buffered + 1]
           out == IF full THEN bufioWrite(took, ok) ELSE took
       IN sv' = [out EXCEPT !.handed = sv.handed + 1]
    /\ UNCHANGED saveRest

\* buf.Flush() and file.Close(): the results are not looked at.
SaveFlush(ok) ==
    /\ sv.pc = "write"
    /\ sv.handed = sv.want
    /\ sv' = [bufioWrite(sv, ok) EXCEPT !.pc = "rename"]
    /\ UNCHANGED saveRest

\* os.Rename(file.Name(), f.historyFile); when it fails the deferred
\* function removes the temporary file.
SaveRename(ok) ==
    /\ sv.pc = "rename"
    /\ sv' = IF ok
             THEN [sv EXCEPT !.pc = "idle", !.tmp = FALSE, !.ret = "ok",
                             !.final = [by |-> sv.n, lines |-> sv.tmpLines,
                                        of |-> sv.want]]
             ELSE [sv EXCEPT !.pc = "idle", !.tmp = FALSE, !.ret = "error",
                             !.renameFailed = TRUE]
    /\ UNCHANGED saveRest

\* The process stops inside Save: nothing more is done, the files stay as
\* they are.
SaveCrash ==
    /\ sv.pc \in {"create", "write", "rename"}
    /\ sv' = [sv EXCEPT !.pc = "crashed", !.ret = "crash"]
    /\ UNCHANGED saveRest

\* The process is started again after a crash.
SaveRestart ==
    /\ sv.pc = "crashed"
    /\ sv' = [sv EXCEPT !.pc = "idle"]
    /\ UNCHANGED saveRest

\* -------------------------------------------------------------- watchMedia
\* BackOff.NextBackOff: the delay is the current interval, which then grows
\* by the multiplier up to the maximum.
NextBackOff(b) ==
    [cur |-> IF b.cur * Multiplier > MaxInterval THEN MaxInterval
             ELSE b.cur * Multiplier,
     tries |-> b.tries + 1]

\* slowEternalBackoff(): as eternalBackoff, from 5 s on.
slowEternalBackoff == [cur |-> SlowInitialInterval, tries |-> 0]

\* The supervisor after it has started WatchAuth, monitorUSB, WatchFolder and
\* the watchdog, and has entered `for folderUpdate := range folderChan`.
SupStart ==
    [main |-> "range", rootDone |-> FALSE, folderChan |-> <<>>,
     folderClosed |-> FALSE, folderPc |-> "poll", polled |-> "",
     lastFolder |-> "", sent |-> 0, gen |-> 0,
     kids |-> [k \in Kids |-> "running"]]

NoWatcher ==
    [pc |-> "off", folder |-> "", ctxDone |-> FALSE, aux |-> "off",
     elapsed |-> 0, err |-> "none", watchAt |-> 0, stopClosed |-> FALSE,
     alertTriggered |-> FALSE, alerts |-> 0, clears |-> 0, resetBO |-> FALSE,
     processed |-> 0, attempts |-> 0, early |-> FALSE,
     bo |-> slowEternalBackoff, delay |-> 0, quick |-> 0]

supRest == <<watcherVars, mediaVars, authVars, up, sv, auxVars>>

\* The root context is cancelled: so is every context derived from it.
RootCancel ==
    /\ sup.main = "range"
    /\ ~sup.rootDone
    /\ sup' = [sup EXCEPT !.rootDone = TRUE]
    /\ wt' = [g \in Gens |-> IF wt[g].pc = "off" THEN wt[g]
                              ELSE [wt[g] EXCEPT !.ctxDone = TRUE]]
    /\ UNCHANGED supRest

\* WatchAuth, monitorUSB and the watchdog return at case <-ctx.Done().
KidReturn(k) ==
    /\ sup.rootDone
    /\ sup.kids[k] = "running"
    /\ sup' = [sup EXCEPT !.kids[k] = "returned"]
    /\ UNCHANGED wt
    /\ UNCHANGED supRest

\* WatchFolder, httpFolder: the folder of the camera, or (the context is
\* cancelled) an error, after which the loop goes on with `continue`.
FolderPoll(f) ==
    /\ sup.folderPc = "poll"
    /\ sup' = IF sup.rootDone THEN sup
              ELSE IF f # sup.lastFolder /\ sup.sent < MaxGens
                   THEN [sup EXCEPT !.folderPc = "send", !.polled = f]
                   ELSE [sup EXCEPT !.folderPc = "sleep"]
    /\ UNCHANGED wt
    /\ UNCHANGED supRest

\* WatchFolder: select { case <-ctx.Done(): return; case folderChan <- folder }
FolderSend(case) ==
    /\ sup.folderPc = "send"
    /\ \/ /\ case = "ctx"
          /\ sup.rootDone
          /\ sup' = [sup EXCEPT !.folderPc = "returned"]
       \/ /\ case = "send"
          /\ Len(sup.folderChan) < FolderCap
          /\ sup' = [sup EXCEPT !.folderChan = Append(@, sup.polled),
                                !.lastFolder = sup.polled, !.folderPc = "sleep",
                                !.sent = sup.sent + 1]
    /\ UNCHANGED wt
    /\ UNCHANGED supRest

\* WatchFolder: select { case <-ctx.Done(): return; case <-timer.C }
FolderSleep(case) ==
    /\ sup.folderPc = "sleep"
    /\ \/ /\ case = "ctx"
          /\ sup.rootDone
          /\ sup' = [sup EXCEPT !.folderPc = "returned"]
       \/ /\ case = "timer"
          /\ sup' = [sup EXCEPT !.folderPc = "poll"]
    /\ UNCHANGED wt
    /\ UNCHANGED supRest

\* One attempt of the retry loop of a watcher goroutine begins: the aux
\* goroutine is started with a new stop channel, then watch.Watch is called.
startAttempt(w) ==
    [w EXCEPT !.pc = "watch", !.aux = "armed", !.elapsed = 0, !.err = "none",
              !.watchAt = 0, !.stopClosed = FALSE, !.resetBO = FALSE,
              !.attempts = w.attempts + 1, !.early = FALSE]

\* for folderUpdate := range folderChan.  A value: the previous watcher's
\* context is cancelled and the goroutine of the new watcher is started at
\* once.  The channel closed: the loop ends and the deferred functions run
\* (the channel is closed by one of them only).
SupRange ==
    /\ sup.main = "range"
    /\ IF sup.folderClosed /\ sup.folderChan = <<>>
       THEN /\ sup' = [sup EXCEPT !.main = "deferred"]
            /\ UNCHANGED wt
       ELSE /\ sup.folderChan # <<>>
            /\ sup.gen < MaxGens
            /\ LET g == sup.gen + 1 IN
                 /\ sup' = [sup EXCEPT !.folderChan = Tail(@), !.gen = g]
                 /\ wt' = [h \in Gens |->
                             IF h = g
                             THEN startAttempt([NoWatcher EXCEPT
                                      !.folder = Head(sup.folderChan),
                                      !.ctxDone = sup.rootDone])
                             ELSE IF h = g - 1
                                  THEN [wt[h] EXCEPT !.ctxDone = TRUE]
                                  ELSE wt[h]]
    /\ UNCHANGED supRest

\* The watcher of g processes an event (its dispatch loop is running).
WatchEvent(g) ==
    /\ wt[g].pc = "watch"
    /\ ~wt[g].ctxDone
    /\ wt[g].processed = 0
    /\ wt' = [wt EXCEPT ![g].processed = 1]
    /\ UNCHANGED sup
    /\ UNCHANGED supRest

\* watch.Watch returns: context.Canceled once its context is cancelled and
\* its tasks have ended, an error when it fails by itself (the folder is
\* missing, fsnotify fails).
WatchReturn(g, failed) ==
    /\ wt[g].pc = "watch"
    /\ failed = ~wt[g].ctxDone
    /\ wt' = [wt EXCEPT ![g].pc = "wait",
                        ![g].err = IF failed THEN "error" ELSE "canceled",
                        ![g].watchAt = wt[g].elapsed]
    /\ UNCHANGED sup
    /\ UNCHANGED supRest

\* The select of the aux goroutine: the context is cancelled, 30 s have
\* passed, or stop is closed.
auxSelect(w, case) ==
    IF case = "ctx" THEN [w EXCEPT !.aux = "done"]
    ELSE IF case = "timer"
         THEN [w EXCEPT !.aux = "done",
                        !.clears = IF w.alertTriggered THEN w.clears + 1 ELSE w.clears,
                        !.alertTriggered = FALSE, !.resetBO = TRUE]
         ELSE [w EXCEPT !.aux = "done",
                        !.alerts = IF w.alertTriggered THEN w.alerts ELSE w.alerts + 1,
                        !.alertTriggered = TRUE]

AuxSelect(g, case) ==
    /\ wt[g].aux = "armed"
    /\ \/ case = "ctx" /\ wt[g].ctxDone
       \/ case = "timer" /\ wt[g].elapsed >= Thirty
       \/ case = "stop" /\ wt[g].stopClosed
    /\ wt' = [wt EXCEPT ![g] = auxSelect(wt[g], case)]
    /\ UNCHANGED sup
    /\ UNCHANGED supRest

\* watcherWG.Wait() has returned: bo.Reset() if the aux goroutine asked for
\* it, the function of the retry loop returns the error of Watch, and the
\* deferred close(stop) runs.  A cancelled context makes the error permanent
\* and ends the goroutine; otherwise backoff.Retry takes the next delay.
\* quick counts the attempts in a row whose Watch failed within 30 s.
AttemptEnd(g) ==
    /\ wt[g].pc = "wait"
    /\ wt[g].aux = "done"
    /\ LET early == wt[g].err = "error" /\ wt[g].watchAt < Thirty /\ ~wt[g].ctxDone
           retry == ~(wt[g].ctxDone \/ wt[g].err = "canceled")
           bo1 == IF wt[g].resetBO THEN slowEternalBackoff ELSE wt[g].bo
       IN  wt' = [wt EXCEPT ![g].stopClosed = TRUE,
                            ![g].early = early,
                            ![g].quick = IF early THEN @ + 1 ELSE 0,
                            ![g].delay = IF retry THEN bo1.cur ELSE 0,
                            ![g].bo = IF retry THEN NextBackOff(bo1) ELSE bo1,
                            ![g].pc = IF retry THEN "backoff" ELSE "returned"]
    /\ UNCHANGED sup
    /\ UNCHANGED supRest

\* The retry loop after its delay: the next attempt, or (context cancelled)
\* the end of the goroutine.
AttemptRetry(g) ==
    /\ wt[g].pc = "backoff"
    /\ wt[g].ctxDone \/ wt[g].attempts < MaxAttempts
    /\ wt' = [wt EXCEPT ![g] = IF wt[g].ctxDone THEN [@ EXCEPT !.pc = "returned"]
                                ELSE startAttempt(@)]
    /\ UNCHANGED sup
    /\ UNCHANGED supRest

\* The clock of the supervisor: the attempts under way grow older.  A parked
\* aux goroutine is woken as soon as one of its cases is ready.
AuxReady(g) ==
    wt[g].aux = "armed" /\ (wt[g].ctxDone \/ wt[g].elapsed >= Thirty \/ wt[g].stopClosed)

SupTick ==
    /\ \A g \in Gens : ~AuxReady(g)
    /\ \E g \in Gens : wt[g].pc \in {"watch", "wait"} /\ wt[g].elapsed < Thirty
    /\ wt' = [g \in Gens |->
                IF wt[g].pc \in {"watch", "wait"} /\ wt[g].elapsed < Thirty
                THEN [wt[g] EXCEPT !.elapsed = @ + 1] ELSE wt[g]]
    /\ UNCHANGED sup
    /\ UNCHANGED supRest

\* ------------------------------------------------------------------ alerts
\* The alert tasks and the backend's records: no task yet, no record.
AlertStart == [on |-> TRUE, tasks |-> <<>>, backend |-> [id \in AlertIds |-> "none"]]

alRest == <<watcherVars, mediaVars, authVars, up, sv, sup, wt, usb, wd, bo, sr, extVars>>
usbRest == <<watcherVars, mediaVars, authVars, up, sv, sup, wt, al, wd, bo, sr, extVars>>
wdRest == <<watcherVars, mediaVars, authVars, up, sv, sup, wt, al, usb, bo, sr, extVars>>
boRest == <<watcherVars, mediaVars, authVars, up, sv, sup, wt, al, usb, wd, sr, extVars>>
srRest == <<watcherVars, mediaVars, authVars, up, sv, sup, wt, al, usb, wd, bo, extVars>>
baseVars == <<watcherVars, mediaVars, authVars, up, sv, sup, wt, al, usb, wd, bo, sr>>
rmRest == <<baseVars, fc, wf, mg>>
fcRest == <<baseVars, rm, wf, mg>>
wfRest == <<baseVars, rm, fc, mg>>
mgRest == <<baseVars, rm, fc, wf>>

\* httpAlertRequest{Alert: Alert{ID: id, ...}}: the Response is the zero value.
httpAlertRequest(id, resolvedAt) ==
    [ID |-> id, ResolvedAt |-> resolvedAt, Response |-> [Data |-> <<>>]]

\* serverProxy.SendAlert: a goroutine that will call Server.SendAlert.
ProxySendAlert(id) ==
    /\ al.on
    /\ Len(al.tasks) < MaxAlertCalls
    /\ al' = [al EXCEPT !.tasks = Append(@,
                 [kind |-> "send", pc |-> "post",
                  alert |-> httpAlertRequest(id, FALSE), decoded |-> <<>>])]
    /\ UNCHANGED alRest

\* serverProxy.ClearAlert: a goroutine that will call Server.ClearAlert.
ProxyClearAlert(id) ==
    /\ al.on
    /\ Len(al.tasks) < MaxAlertCalls
    /\ al' = [al EXCEPT !.tasks = Append(@,
                 [kind |-> "clear", pc |-> "get",
                  alert |-> httpAlertRequest(id, TRUE), decoded |-> <<>>])]
    /\ UNCHANGED alRest

\* The backend: POST /api/alert creates the record, PUT /api/alert/<id> adds
\* resolved_at to an existing record, GET /api/alert?q:id:eq=<id> answers with
\* the records of that id.
backendPost(b, id) == IF b[id] = "none" THEN [b EXCEPT ![id] = "open"] ELSE b
backendPut(b, id) == IF b[id] = "none" THEN b ELSE [b EXCEPT ![id] = "resolved"]
backendGet(b, id) == IF b[id] = "none" THEN <<>> ELSE <<id>>

\* Server.SendAlert: sendResource with onlyPost.
AlertPost(i) ==
    /\ al.on
    /\ i \in DOMAIN al.tasks
    /\ al.tasks[i].pc = "post"
    /\ al' = [al EXCEPT !.tasks[i].pc = "done",
                        !.backend = backendPost(@, al.tasks[i].alert.ID)]
    /\ UNCHANGED alRest

\* func (har httpAlertRequest) ReadBody: the receiver is a copy of the
\* caller's request; the answer is decoded into the copy, which is the value
\* of this operator.
ReadBody(har, body) == [har EXCEPT !.Response = [Data |-> body]]

\* Server.ClearAlert: getResource hands `alert` over by value and ReadBody
\* fills its own copy (kept in decoded); then the PUT (sendResource with
\* onlyPut) if the caller's alert.Response.Data is not empty.
AlertGet(i) ==
    /\ al.on
    /\ i \in DOMAIN al.tasks
    /\ al.tasks[i].pc = "get"
    /\ LET alert == al.tasks[i].alert
           har == ReadBody(alert, backendGet(al.backend, alert.ID))
       IN  al' = [al EXCEPT !.tasks[i].pc = "done",
                            !.tasks[i].decoded = har.Response.Data,
                            !.backend = IF Len(alert.Response.Data) > 0
                                        THEN backendPut(@, alert.ID) ELSE @]
    /\ UNCHANGED alRest

\* -------------------------------------------------------------- monitorUSB
\* timer.Reset(1 * time.Minute), in the unit of the timestamps.
Minute == 60 * Second

\* usbID = fmt.Sprintf("%s_%s_%s", config.CameraID, alertName, ...): camera
\* and alert name are fixed, the id is told apart by its timestamp.
staleUsbID(old, now) == old
newUsbID(old, now) == FormatRFC3339(now)

\* monitorUSB before its loop, started at instant t0; polls, sent and cleared
\* record the readings taken and the ids handed to SendAlert and ClearAlert.
UsbStart(t0) ==
    [pc |-> "select", ctxDone |-> FALSE, now |-> t0,
     usbDetected |-> FALSE, usbMissing |-> FALSE, usbID |-> FormatRFC3339(t0),
     polls |-> <<>>, sent |-> <<>>, cleared |-> <<>>]

\* The context of monitorUSB is cancelled.
UsbCancel ==
    /\ usb.pc = "select"
    /\ ~usb.ctxDone
    /\ usb' = [usb EXCEPT !.ctxDone = TRUE]
    /\ UNCHANGED usbRest

\* One poll: the reading (an error counts as no camera), the alert sent or
\* cleared, the timer reset.
usbPoll(u, connectedCameras, now) ==
    LET send == connectedCameras = 0 /\ (u.usbDetected \/ ~u.usbMissing)
        u1 == IF send
              THEN [u EXCEPT !.sent = Append(@, u.usbID),
                             !.usbDetected = FALSE, !.usbMissing = TRUE]
              ELSE u
        clear == connectedCameras > 0 /\ u1.usbMissing
        u2 == IF connectedCameras > 0
              THEN [u1 EXCEPT !.usbDetected = TRUE,
                              !.cleared = IF clear THEN Append(@, u1.usbID) ELSE @,
                              !.usbID = IF clear THEN newUsbID(@, now) ELSE @,
                              !.usbMissing = IF clear THEN FALSE ELSE @]
              ELSE u1
    IN  [u2 EXCEPT !.now = now, !.polls = Append(@, connectedCameras)]

\* The select of monitorUSB: the context is done, or the timer fires (the
\* first at once, the later ones a minute after the last poll, late by 0 or
\* 1 units) and the cameras are counted.
UsbSelect(case, cameras, failed, late) ==
    /\ usb.pc = "select"
    /\ \/ /\ case = "ctx"
          /\ usb.ctxDone
          /\ usb' = [usb EXCEPT !.pc = "returned"]
       \/ /\ case = "timer"
          /\ Len(usb.polls) < MaxPolls
          /\ LET due == IF usb.polls = <<>> THEN usb.now ELSE usb.now + Minute
                 connectedCameras == IF failed THEN 0 ELSE cameras
             IN  usb' = usbPoll(usb, connectedCameras, due + late)
    /\ UNCHANGED usbRest

\* ------------------------------------------------------- 24-hour watchdog
\* The watchdog goroutine at its select, the timer just created; silent is
\* the time since the last upload attempt (since the start before the first),
\* periodAlerts the camera_not_recording alerts sent since then.
WdStart ==
    [pc |-> "select", ctxDone |-> FALSE, keepalive |-> 0, timer |-> 0,
     now |-> 0, silent |-> 0, alerts |-> 0, periodAlerts |-> 0]

\* serverProxy.Upload of a file with a known media type: the keepalive is
\* pushed unless the channel is full.
WdUpload ==
    /\ wd.pc \in {"select", "returned"}
    /\ wd' = [wd EXCEPT !.keepalive = IF @ < KeepaliveCap THEN @ + 1 ELSE @,
                        !.silent = 0, !.periodAlerts = 0]
    /\ UNCHANGED wdRest

\* The context of watchMedia is cancelled.
WdCancel ==
    /\ wd.pc \in {"select", "returned"}
    /\ ~wd.ctxDone
    /\ wd' = [wd EXCEPT !.ctxDone = TRUE]
    /\ UNCHANGED wdRest

\* The select of the watchdog goroutine; the goroutine ends after it,
\* whichever case was taken.
WdSelect(case) ==
    /\ wd.pc = "select"
    /\ \/ /\ case = "keepalive"
          /\ wd.keepalive > 0
          /\ wd' = [wd EXCEPT !.keepalive = @ - 1, !.timer = 0, !.pc = "returned"]
       \/ /\ case = "timer"
          /\ wd.timer >= Day
          /\ wd' = [wd EXCEPT !.alerts = @ + 1, !.periodAlerts = @ + 1,
                              !.pc = "returned"]
       \/ /\ case = "ctx"
          /\ wd.ctxDone
          /\ wd' = [wd EXCEPT !.pc = "returned"]
    /\ UNCHANGED wdRest

\* A case of the select is ready: the goroutine runs before time passes.
WdReady ==
    wd.pc = "select" /\ (wd.keepalive > 0 \/ wd.timer >= Day \/ wd.ctxDone)

\* Time passes.
WdTick ==
    /\ wd.pc \in {"select", "returned"}
    /\ ~WdReady
    /\ wd.now < MaxClock
    /\ wd' = [wd EXCEPT !.now = @ + 1,
                        !.timer = IF @ < Day THEN @ + 1 ELSE @,
                        !.silent = IF @ < Day THEN @ + 1 ELSE @]
    /\ UNCHANGED wdRest

\* ---------------------------------------------------------- retry loops
\* eternalBackoff(), wrapped by backoff.WithMaxRetries where the options ask
\* for it: the interval the next retry will wait, the retries counted.
eternalBackoff == [cur |-> InitialInterval, tries |-> 0]

\* bo.Reset() after backoff.Retry has returned.
keepBackOff(b) == b
Reset(b) == eternalBackoff

\* WatchAuth and WatchFolder create their backoff once and hand it to every
\* call of httpAuth and httpFolder; sendResource and getResource create one
\* per call, limited to maxRetries retries.
Persistent(l) == l \in {"login", "folder"}
Limited(l) == l \in {"sendResource", "getResource"}

\* Retry loop l before its first call.  first is the first delay of the call
\* under way (0: none yet), peak the longest delay of the call before it,
\* prevOk whether that call ended with a success, ret what the last call
\* returned, stopped whether the context was cancelled when it returned.
BoStart(l) ==
    [loop |-> l, pc |-> "idle", state |-> eternalBackoff, calls |-> 0,
     fails |-> 0, first |-> 0, longest |-> 0, peak |-> 0, prevOk |-> FALSE,
     ctxDone |-> FALSE, ret |-> "none", stopped |-> FALSE]

\* backoff.Retry has returned: bo.Reset(), return.
boReturn(b, ok) ==
    [b EXCEPT !.pc = "idle", !.state = Reset(@), !.peak = b.longest, !.prevOk = ok,
              !.ret = IF ok THEN "nil" ELSE "error", !.stopped = b.ctxDone]

\* An error handed to backoff.Retry as it is.
plainError(done, err) == err

\* PermanentIfCancel: nil and permanent errors are left alone; any other
\* error is made permanent when the context is cancelled (context.Canceled
\* is such an error).
PermanentIfCancel(done, err) ==
    IF err \in {"nil", "permanent"} THEN err
    ELSE IF done THEN "permanent" ELSE err

\* The context of the loop is cancelled.
BoCancel ==
    /\ bo.pc \in {"idle", "op", "sleep"}
    /\ ~bo.ctxDone
    /\ bo' = [bo EXCEPT !.ctxDone = TRUE]
    /\ UNCHANGED boRest

\* httpAuth, httpFolder, sendResource or getResource is called.
BoCall ==
    /\ bo.pc = "idle"
    /\ bo.calls < MaxCalls
    /\ bo' = [bo EXCEPT !.pc = "op", !.calls = @ + 1, !.fails = 0, !.first = 0,
                        !.longest = 0,
                        !.state = IF Persistent(bo.loop) THEN @ ELSE eternalBackoff]
    /\ UNCHANGED boRest

\* The operation handed to backoff.Retry returns, its error passed through
\* PermanentIfCancel by the deferred function: nil, a permanent error, or
\* an error to retry after NextBackOff, unless the retries allowed are used
\* up.
BoOp(outcome) ==
    /\ bo.pc = "op"
    /\ \/ /\ PermanentIfCancel(bo.ctxDone, outcome) \in {"nil", "permanent"}
          /\ bo' = boReturn(bo, outcome = "nil")
       \/ /\ PermanentIfCancel(bo.ctxDone, outcome) = "transient"
          /\ bo.fails < MaxFailures
          /\ bo' = IF Limited(bo.loop) /\ bo.state.tries >= maxRetries
                   THEN boReturn(bo, FALSE)
                   ELSE [bo EXCEPT !.pc = "sleep", !.fails = @ + 1,
                                   !.first = IF @ = 0 THEN bo.state.cur ELSE @,
                                   !.longest = bo.state.cur,
                                   !.state = NextBackOff(@)]
    /\ UNCHANGED boRest

\* backoff.WithContext(bo, ctx): the delay is over and the operation runs
\* again, or the context is cancelled during the delay and backoff.Retry
\* returns.
BoWake(done) ==
    /\ bo.pc = "sleep"
    /\ done = bo.ctxDone
    /\ bo' = IF done THEN boReturn(bo, FALSE) ELSE [bo EXCEPT !.pc = "op"]
    /\ UNCHANGED boRest

\* ------------------------------------------------- one upload, end to end
\* The options of the two sendResource calls of Server.Media.
MediaOpts == [maxRetries |-> maxRetries, onlyPost |-> FALSE, onlyPut |-> FALSE]
FileOpts == [maxRetries |-> maxRetries, onlyPost |-> TRUE, onlyPut |-> FALSE]

\* PutURL: httpMediaRequest has one, httpFileRequest returns "".
hasPutURL(resource) == resource = "media"

\* The MIME types the extension of the file may map to: none, an image or a
\* video type, or another type.
MimeTypes == {"none", "image", "video", "other"}

\* The answers to a request: no response (an error of Do), or a status.
SendStatuses == {"err", "201", "400", "409", "500"}

\* fileTask.triggered at its call of server.Upload.  Of the sendResource
\* call under way: tries (retries counted by the backoff), attempts (runs of
\* the operation), status (the answer to the POST of this attempt),
\* conflictAt (the attempt whose POST got 409 or 500 for a resource without
\* PUT URL), buildFailAt (the attempt in which building a request or a body
\* failed).  Of the whole upload: the POSTs and PUTs sent, what Upload
\* returned, the alerts sent and cleared, the result handed to dispatch,
\* and whether the context of the debouncer is cancelled.
SrStart ==
    [pc |-> "idle", mime |-> "none", resource |-> "none", opts |-> MediaOpts,
     tries |-> 0, attempts |-> 0, status |-> "none",
     conflictAt |-> 0, buildFailAt |-> 0,
     posts |-> 0, puts |-> 0, ret |-> "none", alerts |-> 0, clears |-> 0,
     uploaded |-> "none", ctxDone |-> FALSE]

\* fileTask.triggered after server.Upload has returned err: the result is
\* modtime + 1 s after a success and t.Uploaded after an error, and the
\* deferred function sends the upload_file alert for any error and clears
\* it after a success.
triggeredReturn(s, err) ==
    [s EXCEPT !.pc = "done", !.ret = err,
              !.uploaded = IF err = "nil" THEN "bumped" ELSE "unchanged",
              !.alerts = IF err = "nil" THEN @ ELSE @ + 1,
              !.clears = IF err = "nil" THEN @ + 1 ELSE @]

\* A sendResource call begins.
sendCall(s, resource, opts) ==
    [s EXCEPT !.pc = "post", !.resource = resource, !.opts = opts, !.tries = 0,
              !.attempts = 0, !.status = "none", !.conflictAt = 0,
              !.buildFailAt = 0]

\* serverProxy.Upload and the head of Server.Media: no MIME type for the
\* extension, or a type that is neither image nor video, ends the upload
\* with an error, and so does a failure of os.Stat; otherwise the metadata
\* is sent.
SrUpload(mime, statOk) ==
    /\ sr.pc = "idle"
    /\ sr' = IF mime = "none"
             THEN triggeredReturn([sr EXCEPT !.mime = mime], "failed to detect media type")
             ELSE IF mime \notin {"image", "video"}
                  THEN triggeredReturn([sr EXCEPT !.mime = mime], "unknown media type")
                  ELSE IF ~statOk
                       THEN triggeredReturn([sr EXCEPT !.mime = mime], "stat")
                       ELSE sendCall([sr EXCEPT !.mime = mime], "media", MediaOpts)
    /\ UNCHANGED srRest

\* The context of the debouncer is cancelled while the upload runs.
SrCancel ==
    /\ sr.pc \in {"post", "put"}
    /\ ~sr.ctxDone
    /\ sr' = [sr EXCEPT !.ctxDone = TRUE]
    /\ UNCHANGED srRest

\* backoff.Retry with the outcome of one run of the operation: nil ends the
\* call (Media goes on with the file, or returns), a permanent error ends
\* it, any other error is retried unless maxRetries retries were made; the
\* deferred PermanentIfCancel makes every error permanent once the context
\* is cancelled.
sendRetry(s, err, permanent) ==
    IF err = "nil"
    THEN IF s.resource = "media" THEN sendCall(s, "file", FileOpts)
         ELSE triggeredReturn(s, "nil")
    ELSE IF PermanentIfCancel(s.ctxDone, IF permanent THEN "permanent" ELSE "transient")
               = "permanent"
            \/ s.tries >= s.opts.maxRetries
         THEN triggeredReturn(s, err)
         ELSE [s EXCEPT !.pc = "post", !.tries = @ + 1, !.status = "none"]

\* The last part of the operation: 200, 201 and 204 are a success, any
\* other status an error.
sendCheck(s, status) ==
    IF status \in {"200", "201", "204"} THEN sendRetry(s, "nil", FALSE)
    ELSE sendRetry(s, "status", FALSE)

\* One run of the operation up to the answer to the POST: PostBody and
\* NewRequest (a failure is permanent), auth.Do (an error is retried), then
\* the PUT when the options allow it and the answer is 409 or 500, or the
\* check of the status.
SrPost(build, status) ==
    /\ sr.pc = "post"
    /\ LET s1 == [sr EXCEPT !.attempts = @ + 1] IN
       sr' = IF build # "ok"
             THEN sendRetry([s1 EXCEPT !.buildFailAt = s1.attempts], "build", TRUE)
             ELSE LET s2 == [s1 EXCEPT !.posts = @ + 1, !.status = status,
                                       !.conflictAt =
                                           IF status \in {"409", "500"}
                                              /\ ~hasPutURL(s1.resource)
                                              /\ @ = 0
                                           THEN s1.attempts ELSE @]
                  IN  IF status = "err" THEN sendRetry(s2, "do", FALSE)
                      ELSE IF ~s2.opts.onlyPost
                              /\ (s2.opts.onlyPut \/ status \in {"409", "500"})
                           THEN [s2 EXCEPT !.pc = "put"]
                           ELSE sendCheck(s2, status)
    /\ UNCHANGED srRest

\* The PUT of the operation: no PUT URL is the permanent PostFailedError, a
\* failure of PutBody is permanent, a failure of NewRequest is returned as
\* it is, an error of auth.Do is retried; then the check of the status.
SrPut(build, status) ==
    /\ sr.pc = "put"
    /\ sr' = IF ~hasPutURL(sr.resource)
             THEN sendRetry(sr, "POST failed and there is no PUT", TRUE)
             ELSE IF build = "body"
                  THEN sendRetry([sr EXCEPT !.buildFailAt = sr.attempts], "build", TRUE)
                  ELSE IF build = "request"
                       THEN sendRetry([sr EXCEPT !.buildFailAt = sr.attempts], "build", FALSE)
                       ELSE LET s2 == [sr EXCEPT !.puts = @ + 1, !.status = status]
                            IN  IF status = "err" THEN sendRetry(s2, "do", FALSE)
                                ELSE sendCheck(s2, status)
    /\ UNCHANGED srRest

\* ------------------------------------------------------ FileHistory.Remap
\* What lies at the path of an entry when Remap looks: a file os.Remove can
\* remove, nothing, a directory (os.Remove removes it when empty and fails
\* otherwise), a file os.Remove cannot remove, or a path neither os.Remove
\* nor os.Stat can handle.
FileKinds == {"file", "missing", "dir", "fulldir", "locked", "unreadable"}

\* The expirations tried (0: entries never expire) and the time of the call,
\* in the unit of the timestamps.
Expirations == {0, Second}
RemapTimes == {MaxMtime, MaxMtime + Second}

\* The condition under which Remap looks at the file of an entry at all.
remapExpired(task, expiration, now) ==
    task.Uploaded # 0 /\ expiration > 0 /\ now - task.Uploaded > expiration

\* keep, for an entry Remap looks at.
remapKeep(kind) ==
    CASE kind = "file" -> FALSE
      [] kind = "missing" -> FALSE
      [] kind = "dir" -> FALSE
      [] kind = "fulldir" -> FALSE
      [] kind = "locked" -> TRUE
      [] kind = "unreadable" -> TRUE

\* The entries a call of Remap leaves out of the new map.
remapDropped(h, fs, expiration, now) ==
    {p \in Paths : h[p].present /\ remapExpired(h[p], expiration, now)
                   /\ ~remapKeep(fs[p])}

\* os.Remove succeeded on what Remap dropped: a file or an empty directory.
remapFiles(fs, dropped) ==
    [p \in Paths |-> IF p \in dropped /\ fs[p] \in {"file", "dir"}
                     THEN "missing" ELSE fs[p]]

RmStart ==
    [pc |-> "call", expiration |-> 0, now |-> 0,
     history |-> [p \in Paths |-> NoTask], before |-> [p \in Paths |-> NoTask],
     fs |-> [p \in Paths |-> "missing"], dropped |-> {}]

\* One call of Remap.
RemapCall ==
    /\ rm.pc = "call"
    /\ LET dropped == remapDropped(rm.history, rm.fs, rm.expiration, rm.now) IN
       rm' = [rm EXCEPT !.pc = "done", !.dropped = dropped,
                        !.history = Remap(rm.history, dropped),
                        !.fs = remapFiles(rm.fs, dropped)]
    /\ UNCHANGED rmRest

\* The next tick of the remap timer: the files may have changed meanwhile.
RemapAgain(kind) ==
    /\ rm.pc = "done"
    /\ rm' = [rm EXCEPT !.pc = "call", !.before = rm.history,
                        !.fs = [p \in Paths |-> kind], !.dropped = {}]
    /\ UNCHANGED rmRest

\* -------------------------------------------------------- httpFileRequest
\* The body of the file POST after PostBody.  The producer goroutine writes
\* the part header, the chunks of the file and the closing boundary to a
\* synchronous pipe: a write completes when a reader takes it.  The readers
\* are the HTTP transport (Read) and the goroutines Close starts to exhaust
\* the pipe.  Close is called by the transport, which closes the body of a
\* request when it is done with it, possibly after Do has returned, and by
\* the deferred postBody.Close() of sendResource.
Closers == {"transport", "deferred"}

NoClose == [pc |-> "idle", stop |-> FALSE, wg |-> FALSE, pipeReader |-> FALSE,
            calls |-> 0]

\* prod: "header", "chunk" and "trailer" are writes waiting for a reader,
\* "read" is io.Copy about to read the file through controlledReader,
\* "done" is after writer.Close() and wg.Done().  left: chunks of the file
\* not read yet.  stop, wg, pipeReader: the fields of the struct are set.
\* stopClosed: close(stop) was done.  http: the transport is still reading
\* the body, or has stopped.  panic: the process has panicked.
FcStart ==
    [on |-> TRUE, prod |-> "header", left |-> FileLen,
     stop |-> TRUE, wg |-> TRUE, pipeReader |-> TRUE, stopClosed |-> FALSE,
     http |-> "reading", drainers |-> 0, close |-> [x \in Closers |-> NoClose],
     panic |-> "none"]

FcLive == fc.on /\ fc.panic = "none"

\* A write of the producer is taken by a reader.
pipeTaken(f) ==
    [f EXCEPT !.prod = CASE f.prod = "header" -> "read"
                         [] f.prod = "chunk" -> "read"
                         [] f.prod = "trailer" -> "done"
                         [] OTHER -> f.prod]

\* controlledReader.Read: io.EOF when stop is closed, else the next chunk of
\* the file (io.EOF at its end).  After io.EOF the deferred function closes
\* the multipart writer, which writes the closing boundary.
controlledRead(f) ==
    IF f.stopClosed \/ f.left = 0 THEN [f EXCEPT !.prod = "trailer"]
    ELSE [f EXCEPT !.prod = "chunk", !.left = f.left - 1]

ProdRead ==
    /\ FcLive
    /\ fc.prod = "read"
    /\ fc' = controlledRead(fc)
    /\ UNCHANGED fcRest

\* httpFileRequest.Read by the transport: pipeReader.Read takes a write of
\* the producer, or returns io.EOF once the writer is closed (the transport
\* then stops reading).  After a Close has set pipeReader to nil the call
\* dereferences nil.
HttpRead ==
    /\ FcLive
    /\ fc.http = "reading"
    /\ IF ~fc.pipeReader
       THEN fc' = [fc EXCEPT !.panic = "nil pointer dereference"]
       ELSE \/ /\ fc.prod \in {"header", "chunk", "trailer"}
               /\ fc' = pipeTaken(fc)
            \/ /\ fc.prod = "done"
               /\ fc' = [fc EXCEPT !.http = "stopped"]
    /\ UNCHANGED fcRest

\* The transport stops reading the body before its end (the backend has
\* answered, or the connection broke).
HttpStop ==
    /\ FcLive
    /\ fc.http = "reading"
    /\ fc.prod # "done"
    /\ fc' = [fc EXCEPT !.http = "stopped"]
    /\ UNCHANGED fcRest

\* exhaust(pipeReader) in a goroutine started by Close.
DrainRead ==
    /\ FcLive
    /\ fc.drainers > 0
    /\ fc.prod \in {"header", "chunk", "trailer"}
    /\ fc' = pipeTaken(fc)
    /\ UNCHANGED fcRest

\* Close is entered and copies the fields it needs.  The transport closes
\* the body once it has stopped reading it; the deferred Close runs when
\* the operation of sendResource returns, which needs no more than a
\* response.  A goroutine may call Close once more after it has returned.
CloseEnter(x) ==
    /\ FcLive
    /\ fc.close[x].pc \in {"idle", "returned"}
    /\ fc.close[x].calls < 2
    /\ x = "transport" => fc.http = "stopped"
    /\ fc' = [fc EXCEPT !.close[x] = [pc |-> "signal", stop |-> fc.stop,
                                      wg |-> fc.wg, pipeReader |-> fc.pipeReader,
                                      calls |-> @.calls + 1]]
    /\ UNCHANGED fcRest

\* if stop != nil { close(stop) }; if pipeReader != nil { go exhaust }
CloseSignal(x) ==
    /\ FcLive
    /\ fc.close[x].pc = "signal"
    /\ fc' = IF fc.close[x].stop /\ fc.stopClosed
             THEN [fc EXCEPT !.panic = "close of closed channel"]
             ELSE [fc EXCEPT !.stopClosed = @ \/ fc.close[x].stop,
                             !.drainers = IF fc.close[x].pipeReader THEN @ + 1 ELSE @,
                             !.close[x].pc = "wait"]
    /\ UNCHANGED fcRest

\* if wg != nil { wg.Wait() }; the fields are set to nil; return.
CloseReturn(x) ==
    /\ FcLive
    /\ fc.close[x].pc = "wait"
    /\ fc.close[x].wg => fc.prod = "done"
    /\ fc' = [fc EXCEPT !.stop = FALSE, !.wg = FALSE, !.pipeReader = FALSE,
                        !.close[x].pc = "returned"]
    /\ UNCHANGED fcRest

\* ------------------------------------------------------------ WatchFolder
\* The answers to GET /api/camera/<id>: an error of Do, a response without
\* body, a status other than 200, a body that is no JSON, or a camera
\* record with its local_path ("" when the field is empty or missing).
LocalPaths == {"", "A", "B"}

FolderAnswers ==
    {[kind |-> k, local_path |-> ""] : k \in {"err", "nobody", "status", "badjson"}}
        \cup {[kind |-> "record", local_path |-> l] : l \in LocalPaths}

\* The operation httpFolder hands to backoff.Retry: its error and the folder
\* it has set.
folderOp(answer) ==
    CASE answer.kind = "err" -> [err |-> "do", folder |-> ""]
      [] answer.kind = "nobody" -> [err |-> "EmptyFolderResponseError", folder |-> ""]
      [] answer.kind = "status" -> [err |-> "status", folder |-> ""]
      [] answer.kind = "badjson" -> [err |-> "decode", folder |-> ""]
      [] answer.kind = "record" -> [err |-> "nil", folder |-> answer.local_path]

\* WatchFolder with lastFolder "", and the watchers the supervisor has
\* started, by folder.
WfStart ==
    [pc |-> "poll", lastFolder |-> "", polled |-> "", folderChan |-> <<>>,
     sent |-> 0, ctxDone |-> FALSE, started |-> <<>>]

\* The context is cancelled.
WfCancel ==
    /\ wf.pc \in {"poll", "send", "sleep"}
    /\ ~wf.ctxDone
    /\ wf' = [wf EXCEPT !.ctxDone = TRUE]
    /\ UNCHANGED wfRest

\* One run of the operation of httpFolder.  A failed run is retried by
\* backoff.Retry; with the context cancelled its error is permanent,
\* httpFolder returns it and WatchFolder goes on with `continue`.  After a
\* successful run WatchFolder compares the folder with lastFolder.
WfPoll(answer) ==
    /\ wf.pc = "poll"
    /\ LET r == folderOp(answer) IN
       wf' = IF wf.ctxDone \/ r.err # "nil"
             THEN wf
             ELSE IF r.folder # wf.lastFolder /\ wf.sent < MaxFolders
                  THEN [wf EXCEPT !.pc = "send", !.polled = r.folder]
                  ELSE [wf EXCEPT !.pc = "sleep"]
    /\ UNCHANGED wfRest

\* select { case <-ctx.Done(): return; case folderChan <- folder }
WfSend(case) ==
    /\ wf.pc = "send"
    /\ \/ /\ case = "ctx"
          /\ wf.ctxDone
          /\ wf' = [wf EXCEPT !.pc = "returned"]
       \/ /\ case = "send"
          /\ Len(wf.folderChan) < FolderCap
          /\ wf' = [wf EXCEPT !.folderChan = Append(@, wf.polled),
                              !.lastFolder = wf.polled, !.pc = "sleep",
                              !.sent = wf.sent + 1]
    /\ UNCHANGED wfRest

\* select { case <-ctx.Done(): return; case <-timer.C }
WfSleep(case) ==
    /\ wf.pc = "sleep"
    /\ \/ /\ case = "ctx"
          /\ wf.ctxDone
          /\ wf' = [wf EXCEPT !.pc = "returned"]
       \/ /\ case = "timer"
          /\ wf' = [wf EXCEPT !.pc = "poll"]
    /\ UNCHANGED wfRest

\* watchMedia: for folderUpdate := range folderChan starts a watcher on
\* every name it receives.
WfRange ==
    /\ wf.pc # "off"
    /\ wf.folderChan # <<>>
    /\ wf' = [wf EXCEPT !.folderChan = Tail(@),
                        !.started = Append(@, Head(wf.folderChan))]
    /\ UNCHANGED wfRest

\* --------------------------------------------------------- FileWatch.merge
\* The merge goroutine of Watch, the screen closure it forwards to, the
\* events channel and the dispatch loop that reads it.  pc: "select" (the
\* select of merge), "forward" (screen at `events <- event`), "returned"
\* (merge has returned and the deferred close(events) has run).  fsnotify
\* and the scan always have another event to give; their channels are
\* closed only after Watch's wg.Wait().
MgStart ==
    [pc |-> "select", events |-> 0, closed |-> FALSE, dispatch |-> "loop",
     ctxDone |-> FALSE]

\* failContext is cancelled (the context of Watch, or the cancel of Watch).
MgCancel ==
    /\ mg.pc # "off"
    /\ ~mg.ctxDone
    /\ mg' = [mg EXCEPT !.ctxDone = TRUE]
    /\ UNCHANGED mgRest

\* screen: an event for a file with a recognized extension is sent to
\* events, any other is dropped.
screen(m, interesting) == IF interesting THEN [m EXCEPT !.pc = "forward"] ELSE m

\* merge: select { case <-ctx.Done(): return; case event := <-input1:
\* forward(event); case event := <-input2: forward(event) }
MgSelect(case, interesting) ==
    /\ mg.pc = "select"
    /\ \/ /\ case = "ctx"
          /\ mg.ctxDone
          /\ mg' = [mg EXCEPT !.pc = "returned", !.closed = TRUE]
       \/ /\ case = "event"
          /\ mg' = screen(mg, interesting)
    /\ UNCHANGED mgRest

\* events <- event
MgForward ==
    /\ mg.pc = "forward"
    /\ mg.events < MergedCap
    /\ mg' = [mg EXCEPT !.events = @ + 1, !.pc = "select"]
    /\ UNCHANGED mgRest

\* dispatch: select { case <-ctx.Done(): return; case event, ok := <-events }
MgDispatch(case) ==
    /\ mg.dispatch = "loop"
    /\ \/ /\ case = "ctx"
          /\ mg.ctxDone
          /\ mg' = [mg EXCEPT !.dispatch = "exited"]
       \/ /\ case = "event"
          /\ mg.events > 0
          /\ mg' = [mg EXCEPT !.events = @ - 1]
       \/ /\ case = "event"
          /\ mg.events = 0
          /\ mg.closed
          /\ mg' = [mg EXCEPT !.dispatch = "exited"]
    /\ UNCHANGED mgRest

\* ------------------------------------------------------------ rest values
WatcherOff ==
    /\ disk = [p \in Paths |-> 0]
    /\ history = [p \in Paths |-> NoTask]
    /\ events = <<>>
    /\ tasks = <<>>
    /\ chans = [c \in Chans |-> OpenChan]
    /\ deb = [c \in Chans |-> IdleDeb]
    /\ nextChan = 1
    /\ cancelled = FALSE
    /\ dispatchPc = "off"
    /\ epoch = 0

MediaOff ==
    /\ concurrency = 0
    /\ queue = 0
    /\ media = [k \in MediaCallers |-> IdleMedia]

AuthOff ==
    /\ queries = <<>>
    /\ lastReply = ZeroReply
    /\ watchPc = "off"
    /\ serving = NoQuery
    /\ replies = [k \in Clients |-> NoReply]
    /\ client = [k \in Clients |-> [IdleClient EXCEPT !.pc = "off"]]
    /\ logins = 0
    /\ authDone = FALSE
    /\ granted = 0
    /\ freshSince = FALSE
    /\ posting = 0

UploadOff == up = [UpStart EXCEPT !.phase = "off", !.doPc = "none"]

SaveOff == sv = [SaveStart EXCEPT !.pc = "off"]

SupOff ==
    /\ sup = [SupStart EXCEPT !.main = "off"]
    /\ wt = [g \in Gens |-> NoWatcher]

AlertOff == al = [AlertStart EXCEPT !.on = FALSE]

UsbOff == usb = [UsbStart(0) EXCEPT !.pc = "off"]

WdOff == wd = [WdStart EXCEPT !.pc = "off"]

BoOff == bo = [BoStart("login") EXCEPT !.pc = "off"]

SrOff == sr = [SrStart EXCEPT !.pc = "off"]

RmOff == rm = [RmStart EXCEPT !.pc = "off"]

FcOff == fc = [FcStart EXCEPT !.on = FALSE]

WfOff == wf = [WfStart EXCEPT !.pc = "off"]

MgOff == mg = [MgStart EXCEPT !.pc = "off"]

ExtOff == RmOff /\ FcOff /\ WfOff /\ MgOff

AuxOff == AlertOff /\ UsbOff /\ WdOff /\ BoOff /\ SrOff /\ ExtOff

CtlOff == SaveOff /\ SupOff /\ AuxOff

\* --------------------------------------------------------- specifications
\* The watcher while its context is live.
Init == WatcherInit /\ MediaOff /\ AuthOff /\ UploadOff /\ CtlOff

Next ==
    \/ \E op \in Ops, p \in Paths : Merge(op, p)
    \/ Restart
    \/ \E ok \in BOOLEAN : DispatchTask(ok)
    \/ DispatchRemove
    \/ DispatchUpdate
    \/ DispatchRemap
    \/ \E c \in Chans : DebStart(c)
    \/ \E c \in Chans : DebEvent(c)
    \/ \E c \in Chans : DebClosed(c)
    \/ \E c \in Chans, mtime \in 0..MaxMtime : DebStat(c, mtime)
    \/ \E c \in Chans, ok \in BOOLEAN : DebUploaded(c, ok)
    \/ \E c \in Chans : DebSend(c)
    \/ \E c \in Chans : DebDrain(c)
    \/ Tick

Spec == Init /\ [][Next]_vars

\* The watcher and the cancellation of its context.
NextStop ==
    \/ Next
    \/ Cancel
    \/ DispatchCancel
    \/ DispatchJoin
    \/ Cleanup

SpecStop == Init /\ [][NextStop]_vars

\* One run of Watch up to its return, every goroutine of the watcher
\* scheduled again and again; the events, the results of stat and of the
\* uploads and the cancellation come from the environment and are not forced.
NextHalt ==
    \/ \E op \in Ops, p \in Paths : Merge(op, p)
    \/ \E ok \in BOOLEAN : DispatchTask(ok)
    \/ DispatchRemove
    \/ DispatchUpdate
    \/ DispatchRemap
    \/ \E c \in Chans : DebStart(c)
    \/ \E c \in Chans : DebEvent(c)
    \/ \E c \in Chans : DebClosed(c)
    \/ \E c \in Chans, mtime \in 0..MaxMtime : DebStat(c, mtime)
    \/ \E c \in Chans, ok \in BOOLEAN : DebUploaded(c, ok)
    \/ \E c \in Chans : DebSend(c)
    \/ \E c \in Chans : DebDrain(c)
    \/ Tick
    \/ Cancel
    \/ DispatchCancel
    \/ DispatchJoin
    \/ Cleanup

FairHalt ==
    /\ WF_vars(\E ok \in BOOLEAN : DispatchTask(ok))
    /\ WF_vars(DispatchRemove)
    /\ WF_vars(DispatchUpdate)
    /\ WF_vars(DispatchCancel)
    /\ WF_vars(DispatchJoin)
    /\ WF_vars(Cleanup)
    /\ WF_vars(Tick)
    /\ \A c \in Chans :
          /\ WF_vars(DebStart(c))
          /\ WF_vars(DebEvent(c))
          /\ WF_vars(DebClosed(c))
          /\ WF_vars(\E mtime \in 0..MaxMtime : DebStat(c, mtime))
          /\ WF_vars(\E ok \in BOOLEAN : DebUploaded(c, ok))
          /\ WF_vars(DebSend(c))
          /\ WF_vars(DebDrain(c))

SpecHalt == Init /\ [][NextHalt]_vars /\ FairHalt

\* One run of Watch while its context stays live, every goroutine of the
\* watcher scheduled again and again.
NextRun ==
    \/ \E op \in Ops, p \in Paths : Merge(op, p)
    \/ \E ok \in BOOLEAN : DispatchTask(ok)
    \/ DispatchRemove
    \/ DispatchUpdate
    \/ DispatchRemap
    \/ \E c \in Chans : DebStart(c)
    \/ \E c \in Chans : DebEvent(c)
    \/ \E c \in Chans : DebClosed(c)
    \/ \E c \in Chans, mtime \in 0..MaxMtime : DebStat(c, mtime)
    \/ \E c \in Chans, ok \in BOOLEAN : DebUploaded(c, ok)
    \/ \E c \in Chans : DebSend(c)
    \/ \E c \in Chans : DebDrain(c)
    \/ Tick

FairRun ==
    /\ WF_vars(\E ok \in BOOLEAN : DispatchTask(ok))
    /\ WF_vars(DispatchRemove)
    /\ WF_vars(DispatchUpdate)
    /\ WF_vars(Tick)
    /\ \A c \in Chans :
          /\ WF_vars(DebStart(c))
          /\ WF_vars(DebEvent(c))
          /\ WF_vars(DebClosed(c))
          /\ WF_vars(\E mtime \in 0..MaxMtime : DebStat(c, mtime))
          /\ WF_vars(\E ok \in BOOLEAN : DebUploaded(c, ok))
          /\ WF_vars(DebSend(c))
          /\ WF_vars(DebDrain(c))

SpecRun == Init /\ [][NextRun]_vars /\ FairRun

\* Server.Media and its semaphore, for every Config.Concurrency.
InitMedia ==
    /\ WatcherOff /\ AuthOff /\ UploadOff /\ CtlOff
    /\ concurrency \in 0..MaxConcurrency
    /\ queue = New(concurrency)
    /\ media = [k \in MediaCallers |-> IdleMedia]

NextMedia ==
    \/ \E k \in MediaCallers, known \in BOOLEAN : MediaCall(k, known)
    \/ \E k \in MediaCallers : MediaAcquire(k)
    \/ \E k \in MediaCallers, ok \in BOOLEAN : MediaStat(k, ok)
    \/ \E k \in MediaCallers, out \in {"ok", "send", "cancel"} : MediaMetadata(k, out)
    \/ \E k \in MediaCallers, out \in {"ok", "send", "cancel"} : MediaContents(k, out)
    \/ \E k \in MediaCallers : MediaRelease(k)

SpecMedia == InitMedia /\ [][NextMedia]_vars

\* WatchAuth and the clients of auth.Do.
InitAuth ==
    /\ WatcherOff /\ MediaOff /\ UploadOff /\ CtlOff
    /\ queries = <<>>
    /\ lastReply = ZeroReply
    /\ watchPc = "recv"
    /\ serving = NoQuery
    /\ replies = [k \in Clients |-> NoReply]
    /\ client = [k \in Clients |-> IdleClient]
    /\ logins = 0
    /\ authDone = FALSE
    /\ granted = 0
    /\ freshSince = FALSE
    /\ posting = 0

NextAuth ==
    \/ WatchQuery
    \/ \E ok \in BOOLEAN : WatchLogin(ok)
    \/ WatchDone
    \/ AuthCancel
    \/ \E k \in Clients : DoCall(k)
    \/ \E k \in Clients : GetAuthSend(k)
    \/ \E k \in Clients : GetAuthCancelled(k)
    \/ \E k \in Clients : GetAuthReply(k)
    \/ \E k \in Clients, status \in Statuses : DoSend(k, status)
    \/ \E k \in Clients, status \in Statuses : DoResend(k, status)

SpecAuth == InitAuth /\ [][NextAuth]_vars

\* One media upload, from the metadata POST to the return of Media.
InitUpload ==
    /\ WatcherOff /\ MediaOff /\ AuthOff /\ CtlOff
    /\ up = UpStart

NextUpload ==
    \/ UpBuild
    \/ UpExpire
    \/ \E n \in 0..FileLen, closedNow \in BOOLEAN : UpSend(n, closedNow)
    \/ UpLogin
    \/ UpResend

SpecUpload == InitUpload /\ [][NextUpload]_vars

\* The calls of FileHistory.Save, their failures and crashes.
InitSave ==
    /\ WatcherOff /\ MediaOff /\ AuthOff /\ UploadOff /\ SupOff /\ AuxOff
    /\ sv = SaveStart

NextSave ==
    \/ \E want \in 1..MaxLines : SaveCall(want)
    \/ \E ok \in BOOLEAN : SaveTempFile(ok)
    \/ \E full \in BOOLEAN, ok \in BOOLEAN : SaveWriteString(full, ok)
    \/ \E ok \in BOOLEAN : SaveFlush(ok)
    \/ \E ok \in BOOLEAN : SaveRename(ok)
    \/ SaveCrash
    \/ SaveRestart

SpecSave == InitSave /\ [][NextSave]_vars

\* watchMedia: the coordinator, the watcher goroutines and the children.
InitSup ==
    /\ WatcherOff /\ MediaOff /\ AuthOff /\ UploadOff /\ SaveOff /\ AuxOff
    /\ sup = SupStart
    /\ wt = [g \in Gens |-> NoWatcher]

NextSup ==
    \/ RootCancel
    \/ \E k \in Kids : KidReturn(k)
    \/ \E f \in Folders : FolderPoll(f)
    \/ \E case \in {"ctx", "send"} : FolderSend(case)
    \/ \E case \in {"ctx", "timer"} : FolderSleep(case)
    \/ SupRange
    \/ \E g \in Gens : WatchEvent(g)
    \/ \E g \in Gens, failed \in BOOLEAN : WatchReturn(g, failed)
    \/ \E g \in Gens, case \in {"ctx", "timer", "stop"} : AuxSelect(g, case)
    \/ \E g \in Gens : AttemptEnd(g)
    \/ \E g \in Gens : AttemptRetry(g)
    \/ SupTick

SpecSup == InitSup /\ [][NextSup]_vars

\* The same, with every task of the program scheduled again and again; the
\* environment (cancellation, failures of Watch, events) is not forced.
FairSup ==
    /\ WF_vars(SupRange)
    /\ WF_vars(SupTick)
    /\ \A k \in Kids : WF_vars(KidReturn(k))
    /\ WF_vars(\E f \in Folders : FolderPoll(f))
    /\ WF_vars(\E case \in {"ctx", "send"} : FolderSend(case))
    /\ WF_vars(\E case \in {"ctx", "timer"} : FolderSleep(case))
    /\ \A g \in Gens :
          /\ WF_vars(WatchReturn(g, FALSE))
          /\ WF_vars(\E case \in {"ctx", "timer", "stop"} : AuxSelect(g, case))
          /\ WF_vars(AttemptEnd(g))
          /\ WF_vars(AttemptRetry(g))

SpecSupFair == InitSup /\ [][NextSup]_vars /\ FairSup

\* The alert tasks: the calls through the proxy come from the environment,
\* every task started is scheduled again and again and the backend answers.
InitAlert ==
    /\ WatcherOff /\ MediaOff /\ AuthOff /\ UploadOff /\ SaveOff /\ SupOff
    /\ UsbOff /\ WdOff /\ BoOff /\ SrOff /\ ExtOff
    /\ al = AlertStart

NextAlert ==
    \/ \E id \in AlertIds : ProxySendAlert(id)
    \/ \E id \in AlertIds : ProxyClearAlert(id)
    \/ \E i \in 1..MaxAlertCalls : AlertPost(i)
    \/ \E i \in 1..MaxAlertCalls : AlertGet(i)

SpecAlert ==
    /\ InitAlert /\ [][NextAlert]_vars
    /\ \A i \in 1..MaxAlertCalls : WF_vars(AlertPost(i)) /\ WF_vars(AlertGet(i))

\* monitorUSB: the readings of the camera count come from the environment.
InitUsb ==
    /\ WatcherOff /\ MediaOff /\ AuthOff /\ UploadOff /\ SaveOff /\ SupOff
    /\ AlertOff /\ WdOff /\ BoOff /\ SrOff /\ ExtOff
    /\ \E t0 \in 0..(Second - 1) : usb = UsbStart(t0)

NextUsb ==
    \/ UsbCancel
    \/ \E case \in {"ctx", "timer"}, cameras \in 0..1, failed \in BOOLEAN, late \in 0..1 :
          UsbSelect(case, cameras, failed, late)

SpecUsb == InitUsb /\ [][NextUsb]_vars

\* The watchdog: upload attempts and the cancellation come from the
\* environment.
InitWd ==
    /\ WatcherOff /\ MediaOff /\ AuthOff /\ UploadOff /\ SaveOff /\ SupOff
    /\ AlertOff /\ UsbOff /\ BoOff /\ SrOff /\ ExtOff
    /\ wd = WdStart

NextWd ==
    \/ WdUpload
    \/ WdCancel
    \/ \E case \in {"keepalive", "timer", "ctx"} : WdSelect(case)
    \/ WdTick

SpecWd == InitWd /\ [][NextWd]_vars

\* One retry loop, any of the four; the outcomes of the operation come
\* from the environment.
InitBo ==
    /\ WatcherOff /\ MediaOff /\ AuthOff /\ UploadOff /\ SaveOff /\ SupOff
    /\ AlertOff /\ UsbOff /\ WdOff /\ SrOff /\ ExtOff
    /\ \E l \in Loops : bo = BoStart(l)

NextBo ==
    \/ BoCall
    \/ BoCancel
    \/ \E outcome \in {"nil", "permanent", "transient"} : BoOp(outcome)
    \/ \E done \in BOOLEAN : BoWake(done)

SpecBo == InitBo /\ [][NextBo]_vars

\* One upload from the debouncer's call of Upload to its result; the MIME
\* type, the failures of construction and the answers of the backend come
\* from the environment.
InitSend ==
    /\ WatcherOff /\ MediaOff /\ AuthOff /\ UploadOff /\ SaveOff /\ SupOff
    /\ AlertOff /\ UsbOff /\ WdOff /\ BoOff /\ ExtOff
    /\ sr = SrStart

NextSend ==
    \/ \E mime \in MimeTypes, statOk \in BOOLEAN : SrUpload(mime, statOk)
    \/ SrCancel
    \/ \E build \in {"ok", "body", "request"}, status \in SendStatuses : SrPost(build, status)
    \/ \E build \in {"ok", "body", "request"}, status \in SendStatuses : SrPut(build, status)

SpecSend == InitSend /\ [][NextSend]_vars

\* Calls of Remap on a map of one entry per path, with every expiration,
\* age of the entry and kind of file.
InitRemap ==
    /\ WatcherOff /\ MediaOff /\ AuthOff /\ UploadOff /\ SaveOff /\ SupOff
    /\ AlertOff /\ UsbOff /\ WdOff /\ BoOff /\ SrOff /\ FcOff /\ WfOff /\ MgOff
    /\ \E expiration \in Expirations, now \in RemapTimes,
          present \in BOOLEAN, uploaded \in 0..MaxMtime, c \in {NoChan} \cup Chans,
          kind \in FileKinds :
         LET h == [p \in Paths |-> IF present
                                   THEN [present |-> TRUE, Uploaded |-> uploaded, Events |-> c]
                                   ELSE NoTask]
         IN rm = [RmStart EXCEPT !.expiration = expiration, !.now = now,
                                 !.history = h, !.before = h,
                                 !.fs = [p \in Paths |-> kind]]

NextRemap ==
    \/ RemapCall
    \/ \E kind \in FileKinds : RemapAgain(kind)

SpecRemap == InitRemap /\ [][NextRemap]_vars

\* One multipart body from PostBody to the return of the calls of Close.
InitFile ==
    /\ WatcherOff /\ MediaOff /\ AuthOff /\ UploadOff /\ SaveOff /\ SupOff
    /\ AlertOff /\ UsbOff /\ WdOff /\ BoOff /\ SrOff /\ RmOff /\ WfOff /\ MgOff
    /\ fc = FcStart

NextFile ==
    \/ ProdRead
    \/ HttpRead
    \/ HttpStop
    \/ DrainRead
    \/ \E x \in Closers : CloseEnter(x)
    \/ \E x \in Closers : CloseSignal(x)
    \/ \E x \in Closers : CloseReturn(x)

SpecFile == InitFile /\ [][NextFile]_vars

\* WatchFolder, the answers of the backend and the loop of watchMedia that
\* receives the folder names.
InitFolder ==
    /\ WatcherOff /\ MediaOff /\ AuthOff /\ UploadOff /\ SaveOff /\ SupOff
    /\ AlertOff /\ UsbOff /\ WdOff /\ BoOff /\ SrOff /\ RmOff /\ FcOff /\ MgOff
    /\ wf = WfStart

NextFolder ==
    \/ WfCancel
    \/ \E answer \in FolderAnswers : WfPoll(answer)
    \/ \E case \in {"ctx", "send"} : WfSend(case)
    \/ \E case \in {"ctx", "timer"} : WfSleep(case)
    \/ WfRange

SpecFolder == InitFolder /\ [][NextFolder]_vars

\* The merge goroutine and the dispatch loop of one Watch, both scheduled
\* again and again; the events and the cancellation come from the
\* environment.
InitMerge ==
    /\ WatcherOff /\ MediaOff /\ AuthOff /\ UploadOff /\ SaveOff /\ SupOff
    /\ AlertOff /\ UsbOff /\ WdOff /\ BoOff /\ SrOff /\ RmOff /\ FcOff /\ WfOff
    /\ mg = MgStart

NextMerge ==
    \/ MgCancel
    \/ \E case \in {"ctx", "event"}, interesting \in BOOLEAN : MgSelect(case, interesting)
    \/ MgForward
    \/ \E case \in {"ctx", "event"} : MgDispatch(case)

FairMerge ==
    /\ WF_vars(MgSelect("ctx", TRUE))
    /\ WF_vars(MgForward)
    /\ WF_vars(\E case \in {"ctx", "event"} : MgDispatch(case))

SpecMerge == InitMerge /\ [][NextMerge]_vars /\ FairMerge

\* ================================================================== claims
\* The debouncers of path p that have not returned.
Live(p) == {c \in Chans : deb[c].Path = p /\ deb[c].pc \notin {"idle", "done"}}

\* The uploaded value the history holds for p (the zero time when none).
Stored(h, p) == IF h[p].present THEN h[p].Uploaded ELSE 0

\* m rounded to the nearest whole second, a half going up.
RoundToSeconds(m) ==
    CHOOSE r \in {k * Second : k \in 0..(MaxMtime + 1)} :
        2 * r - Second <= 2 * m /\ 2 * m < 2 * r + Second

\* The step in which dispatch takes a result from tasks.
TaskTaken == tasks # <<>> /\ tasks' = Tail(tasks) /\ epoch' = epoch

\* The step in which dispatch handles a Remove event of p.
RemoveTaken(p) ==
    /\ events # <<>>
    /\ Head(events) = [Op |-> "Remove", Name |-> p]
    /\ events' = Tail(events)

\* C1: in every reachable state and for every path, at most one debouncer
\* (an upload invocation that has not returned) exists for the path.
C1_OneDebouncerPerPath == \A p \in Paths : Cardinality(Live(p)) <= 1

\* C2: a debouncer runs the Triggered step at most once and calls Upload at
\* most once in it; a debouncer that waits is never left waiting once
\* monitorFor has passed without an event; and a debouncer that waits for
\* the quiescence of Create/Write/Rename events is stopped before its
\* Triggered step by nothing but a Remove event of its path, so that the
\* step is run exactly once.
C2_TriggeredExactlyOnce ==
    /\ [](\A c \in Chans :
            /\ deb[c].trig <= 1
            /\ deb[c].uploads <= deb[c].trig
            /\ deb[c].pc \in {"spawned", "armed"} => deb[c].since < MonitorFor)
    /\ [][\A c \in Chans :
            (deb[c].pc \in {"spawned", "armed"} /\ ~chans[c].closed /\ chans'[c].closed)
                => RemoveTaken(deb[c].Path)]_vars

\* C3: when a debouncer of p enters the Triggered step, monitorFor has
\* passed since the last event delivered to it, and no debouncer of p is
\* still counting from an event for p delivered less than monitorFor ago.
C3_QuietBeforeTriggered ==
    [][\A c \in Chans :
          (deb[c].pc = "armed" /\ deb'[c].pc = "triggered") =>
              \A c2 \in Chans :
                  (deb'[c2].Path = deb'[c].Path
                     /\ deb'[c2].pc \in {"spawned", "armed", "triggered"})
                      => deb'[c2].since >= MonitorFor]_vars

\* C4: the result of a successful Upload of a file with modification time m
\* carries round_to_seconds(m) + 1 s, and the step in which dispatch
\* processes that result leaves exactly that value in the history entry.
C4_UploadedIsRoundedMtimePlusSecond ==
    /\ [](\A c \in Chans :
            deb[c].result = "ok" =>
                uploadResult(c).Uploaded = RoundToSeconds(deb[c].mtime) + Second)
    /\ [][(TaskTaken /\ Head(tasks).result = "ok") =>
            /\ history'[Head(tasks).Path].present
            /\ history'[Head(tasks).Path].Uploaded
                   = RoundToSeconds(Head(tasks).mtime) + Second]_vars

\* C4 witness: the history holds, and the history file records, the value of
\* a successful upload of a file whose modification time was rounded up.
C4_StoredAfterUpload ==
    \E p \in Paths :
        /\ RoundToSeconds(MaxMtime) + Second > MaxMtime + Second
        /\ history[p].present
        /\ history[p].Uploaded = RoundToSeconds(MaxMtime) + Second
        /\ disk[p] = FormatRFC3339(RoundToSeconds(MaxMtime) + Second)

\* C5: when the rounded modification time is not after the uploaded value
\* the history holds for the path, the Triggered step does not call Upload
\* and its result carries the uploaded value unchanged (also after a
\* restart, when the history comes from the history file).
C5_NotAfterIsNotUploaded ==
    [][\A c \in Chans :
          (/\ deb[c].pc = "triggered"
           /\ deb'[c].pc \in {"sending", "uploading"}
           /\ deb'[c].mtime # 0
           /\ history[deb[c].Path].present
           /\ RoundToSeconds(deb'[c].mtime) <= history[deb[c].Path].Uploaded)
              => /\ deb'[c].pc = "sending"
                 /\ deb'[c].uploads = deb[c].uploads
                 /\ deb'[c].Uploaded = deb[c].start]_vars

\* C6: a failed Triggered step (stat error or Upload error) emits the
\* uploaded value the debouncer started with and sends exactly one
\* upload_file alert (a step that does not fail sends none), and the step in
\* which dispatch processes that result leaves the uploaded value of the
\* history entry as it was.
C6_FailureLeavesUploaded ==
    /\ [](\A c \in Chans :
            IF deb[c].result \in {"staterr", "failed"}
            THEN deb[c].Uploaded = deb[c].start /\ deb[c].alerts = 1
            ELSE deb[c].alerts = 0)
    /\ [][(/\ TaskTaken
           /\ Head(tasks).result \in {"staterr", "failed"}
           /\ history[Head(tasks).Path].present)
              => history'[Head(tasks).Path].Uploaded
                     = history[Head(tasks).Path].Uploaded]_vars

\* The callers of Media between the acquisition of a token and its release.
Holders == {k \in MediaCallers : media[k].pc \in {"stat", "metadata", "contents", "release"}}

\* The concurrency limit that is configured: at least one.
Limit == IF concurrency >= 1 THEN concurrency ELSE 1

\* C7: at most N callers of Media are between acquisition and release, and
\* the free tokens plus the holders are always N.
C7_SemaphoreBalance ==
    /\ Cardinality(Holders) <= Limit
    /\ queue + Cardinality(Holders) = Limit

\* C7 witness: every token is taken, a caller waits for one, and a holder is
\* on its way out after an error, another after a success.
C7_FullAndReleasing ==
    /\ queue = 0
    /\ Cardinality(Holders) = Limit
    /\ Limit > 1
    /\ \E k \in MediaCallers : media[k].pc = "acquire"
    /\ \E k \in MediaCallers : media[k].pc = "release" /\ media[k].ret \in {"stat", "send", "cancel"}
    /\ \E k \in MediaCallers : media[k].pc = "release" /\ media[k].ret = "ok"

\* The calls of Do that have returned after a first response 401 or 403 to
\* a request sent with a cached token.
Denied == {k \in Clients : /\ client[k].pc = "returned"
                           /\ client[k].first \in {"401", "403"}
                           /\ client[k].Cached}

\* C8: after a first response 401 or 403 with a cached token, Do issues
\* exactly one fresh query, sends the request exactly once more, and returns
\* the second response.
C8_RetriesExactlyOnce ==
    \A k \in Denied :
        /\ client[k].freshCalls = 1
        /\ client[k].sends = 2
        /\ client[k].ret = client[k].second

\* C8, amended: after a first response 401 or 403 with a cached token, Do
\* asks for fresh credentials exactly once; when it gets them it sends the
\* request exactly once more and returns the second response whatever its
\* status; when it does not (the context is cancelled) it returns the error
\* without sending again.  No call sends more than twice.
C8_RetriesOnceWithFreshToken ==
    /\ \A k \in Clients : client[k].sends <= 2 /\ client[k].freshCalls <= 1
    /\ \A k \in Denied :
          /\ client[k].freshCalls = 1
          /\ IF client[k].gotFresh
             THEN client[k].sends = 2 /\ client[k].ret = client[k].second
             ELSE client[k].sends = 1 /\ client[k].ret = "error"

\* C8 witness: a call returned the 403 that answered its second send, made
\* with a fresh token after a 401.
C8_SecondDenialReturned ==
    \E k \in Denied :
        /\ client[k].first = "401"
        /\ client[k].gotFresh
        /\ client[k].second = "403"
        /\ client[k].ret = "403"
        /\ client[k].sends = 2

\* C9: when the body POST of a file whose metadata POST succeeded is
\* answered 401, the client logs in once, sends the same POST again with
\* the complete body of the file, the upload succeeds, and no metadata POST
\* is issued again.
C9_ResendCarriesWholeBody ==
    /\ up.phase # "crashed"
    /\ up.phase \in {"contents", "done"} => up.metaPosts = up.metaAtBody
    /\ (up.phase \in {"contents", "done"} /\ up.denied /\ up.resent) =>
          /\ up.relogins = 1
          /\ up.carried = FileLen
          /\ up.phase = "done" /\ up.ret = "ok"

\* C10: once a login has succeeded, and until a fresh=true query is
\* submitted, every answer to a fresh=false query carries the token of that
\* login.
C10_SameTokenUntilFresh ==
    [][\A k \in Clients :
          (/\ replies'[k].full
           /\ replies'[k] # replies[k]
           /\ ~replies'[k].fresh
           /\ granted # 0
           /\ ~freshSince)
              => replies'[k].Token = granted]_vars

\* C10 witness: two clients hold the same token, both answers to fresh=false
\* queries, one of them marked as cached, and no fresh query was submitted.
C10_TwoClientsOneToken ==
    \E k1, k2 \in Clients :
        /\ k1 # k2
        /\ client[k1].pc = "send" /\ client[k2].pc = "send"
        /\ client[k1].Token = granted /\ client[k2].Token = granted
        /\ granted # 0
        /\ client[k2].Cached
        /\ ~freshSince

\* C11: at most one POST /api/login (one call of httpAuth) is under way at
\* any time, whatever the number of callers of Do and of queued queries.
C11_OneLoginInFlight ==
    /\ posting <= 1
    /\ posting = (IF watchPc = "login" THEN 1 ELSE 0)

\* C11 witness: WatchAuth is inside its second login while the query of
\* another caller waits in the channel.
C11_LoginWhileQueriesWait ==
    /\ posting = 1
    /\ watchPc = "login"
    /\ logins >= 1
    /\ queries # <<>>
    /\ \E k \in Clients : client[k].pc \in {"wait", "waitFresh"} /\ k # serving.from

\* C12: at every step of Save, and after a crash or a failed write, the
\* history file at its final path is complete (the CSV of the last Save that
\* renamed its file, or the one before), and after a failed rename no
\* temporary file is left.
C12_SaveIsCrashAtomic ==
    /\ sv.final.lines = sv.final.of
    /\ (sv.pc = "idle" /\ sv.renameFailed) => ~sv.tmp

\* C13: when the watcher of a new folder name processes its first event,
\* every watcher goroutine started for an earlier folder name has returned.
C13_PreviousWatcherGone ==
    [][\A g \in Gens :
          (wt[g].processed = 0 /\ wt'[g].processed = 1) =>
              \A h \in Gens : h < g => wt[h].pc = "returned"]_vars

\* C18: after the root context is cancelled, watchMedia leaves its loop,
\* joins its children and returns.
C18_SupervisorReturns ==
    sup.rootDone ~> (sup.main = "returned")

\* C20: when an attempt ends with an error of Watch less than 30 s after its
\* start and the watcher context is not cancelled, the watch_folder alert of
\* that attempt has been sent.
C20_EarlyFailureAlerts ==
    \A g \in Gens : wt[g].early => (wt[g].alertTriggered /\ wt[g].alerts >= 1)

\* ---------------------------------------------------------------------- C14
\* SendAlert(id) was issued and ClearAlert(id) was issued after it.
SentThenCleared(id) ==
    \E i, j \in DOMAIN al.tasks :
        /\ i < j
        /\ al.tasks[i].kind = "send" /\ al.tasks[i].alert.ID = id
        /\ al.tasks[j].kind = "clear" /\ al.tasks[j].alert.ID = id

\* C14: once SendAlert(X) and then ClearAlert(X) have been issued through the
\* proxy, the backend's record X eventually has a resolved_at, whatever the
\* interleaving of the two alert tasks.
C14_ClearedAlertResolved ==
    \A id \in AlertIds : SentThenCleared(id) ~> (al.backend[id] = "resolved")

\* ---------------------------------------------------------------------- C15
\* The polls that begin a maximal run of zero-camera polls, and the polls
\* that end one (the first poll with a camera after such a run).
RunStarts(polls) ==
    {i \in DOMAIN polls : polls[i] = 0 /\ (i = 1 \/ polls[i - 1] > 0)}
RunEnds(polls) ==
    {i \in DOMAIN polls : polls[i] > 0 /\ i > 1 /\ polls[i - 1] = 0}

\* C15: after any sequence of polls, SendAlert was issued once per maximal
\* run of zero-camera polls, ClearAlert once per run that a poll with a
\* camera ended, the k-th ClearAlert carries the id of the k-th SendAlert,
\* and no two SendAlerts carry the same id.
C15_OneAlertPerOutage ==
    /\ Len(usb.sent) = Cardinality(RunStarts(usb.polls))
    /\ Len(usb.cleared) = Cardinality(RunEnds(usb.polls))
    /\ \A k \in DOMAIN usb.cleared : usb.cleared[k] = usb.sent[k]
    /\ \A j, k \in DOMAIN usb.sent : j # k => usb.sent[j] # usb.sent[k]

\* Two outages, the first one cleared with its own id, the second one
\* reported under another id.
C15_SecondOutage ==
    /\ Len(usb.sent) = 2 /\ Len(usb.cleared) = 1
    /\ usb.cleared[1] = usb.sent[1]
    /\ usb.sent[2] # usb.sent[1]

\* ---------------------------------------------------------------------- C16
\* C16: while the run is not cancelled, once 24 hours have passed since the
\* last upload attempt (or since the start) and the watchdog has had its
\* turn, exactly one camera_not_recording alert has been sent for that
\* silent period; this holds for the first period and for every later one.
C16_SilentDayReported ==
    (wd.pc # "off" /\ wd.silent >= Day /\ ~wd.ctxDone /\ ~WdReady)
        => wd.periodAlerts = 1

\* ---------------------------------------------------------------------- C17
\* C17: once the context of Watch is cancelled, Watch returns: dispatch has
\* returned, wg.Wait() is over and the deferred Cleanup has run, whatever
\* the debouncers were doing at the cancellation.
C17_WatchReturns == cancelled ~> (dispatchPc = "cleaned")

\* ---------------------------------------------------------------------- C19
\* C19: in each of the four retry loops the first retry delay of a call is
\* the initial interval, whatever the escalation of the calls before it,
\* and between two calls the backoff is in its initial state.
C19_BackoffStartsAfresh ==
    bo.pc # "off" =>
        /\ bo.first \in {0, InitialInterval}
        /\ (bo.pc = "idle" /\ bo.calls > 0) => bo.state = eternalBackoff

\* The login loop: the call before escalated beyond the initial interval and
\* succeeded, and the first failure of this call waits the initial interval.
C19_FreshAfterEscalation ==
    /\ bo.loop = "login" /\ bo.pc = "sleep"
    /\ bo.calls = 2 /\ bo.prevOk /\ bo.peak > InitialInterval
    /\ bo.first = InitialInterval /\ bo.fails = 1

\* ---------------------------------------------------------------------- C21
\* The delay the slow eternal backoff gives after n failures in a row.
RECURSIVE SlowDelay(_)
SlowDelay(n) ==
    IF n <= 1 THEN SlowInitialInterval
    ELSE IF SlowDelay(n - 1) * Multiplier > MaxInterval THEN MaxInterval
         ELSE SlowDelay(n - 1) * Multiplier

\* C21: an attempt whose Watch failed within 30 s has ended at the moment
\* Watch returned, has not reset the slow eternal backoff, and is followed
\* by a delay that grows with the number of such failures in a row (5 s,
\* then doubling, at most 5 min).
C21_QuickFailuresBackOff ==
    \A g \in Gens :
        (wt[g].pc = "backoff" /\ wt[g].early) =>
            /\ wt[g].elapsed = wt[g].watchAt
            /\ ~wt[g].resetBO
            /\ wt[g].delay = SlowDelay(wt[g].quick)

\* ---------------------------------------------------------------------- C24
\* C24: when dispatch takes the result of a debouncer whose event channel was
\* closed by the removal of its path's entry (the history holds no entry for
\* the path), the history still holds no entry for that path afterwards.
C24_RemovedStaysRemoved ==
    [][\A p \in Paths :
          (/\ TaskTaken
           /\ dispatchPc = "loop" /\ events' = events
           /\ Head(tasks).Path = p
           /\ chans[Head(tasks).Events].closed
           /\ ~history[p].present)
          => ~history'[p].present]_vars

\* ---------------------------------------------------------------------- C25
\* C25: a step of the dispatch loop taken while a result and an event are
\* both ready does not consume the event.
C25_ResultsFirst ==
    [][(/\ dispatchPc = "loop" /\ epoch' = epoch
        /\ tasks # <<>> /\ events # <<>>)
       => events' # Tail(events)]_vars

\* ---------------------------------------------------------------------- C26
\* The step in which debouncer c sends its result on tasks.
ResultSent(c) ==
    /\ deb[c].pc = "sending" /\ deb'[c].pc = "draining"
    /\ tasks' = Append(tasks, uploadResult(c))

\* C26: a debouncer sends its result in one step, between the end of its
\* loop (timer expiry and Triggered, or a closed event channel) and the
\* draining of its channel; it does not return before that step, nothing
\* else is ever put on tasks, and after that step it only drains and
\* returns: one result per invocation, no more, no less.
C26_OneResultPerDebouncer ==
    [][/\ \A c \in Chans :
             /\ (deb[c].pc # "draining" /\ deb'[c].pc = "draining") => ResultSent(c)
             /\ (deb[c].pc # "done" /\ deb'[c].pc = "done") => deb[c].pc = "draining"
             /\ (deb[c].pc \in {"draining", "done"} /\ epoch' = epoch)
                    => deb'[c].pc \in {"draining", "done"}
       /\ Len(tasks') > Len(tasks) => \E c \in Chans : ResultSent(c)]_vars

\* One debouncer has sent its result and returned, the other one has
\* delivered the result of an upload after its timer expired and drains its
\* channel, its one result waiting on tasks.
C26_BothEndingsDelivered ==
    \E c, d \in Chans :
        /\ deb[c].pc = "done"
        /\ deb[d].pc = "draining" /\ deb[d].result = "ok" /\ deb[d].trig = 1
        /\ Len(SelectSeq(tasks, LAMBDA t : t.Events = d)) = 1

\* ---------------------------------------------------------------------- C30
\* C30: once the context is cancelled WatchFolder returns, wherever the
\* cancellation finds it: in a poll, at the send of a folder name, or at the
\* wait for the refresh timer.
C30_WatchFolderReturns == sup.rootDone ~> (sup.folderPc = "returned")

\* ---------------------------------------------------------------------- C29
\* C29: while the context is cancelled a retry loop neither goes from an
\* operation to a backoff delay nor from a delay to another attempt: the
\* operation under way, if it fails, ends the loop with its error, and a
\* delay under way ends the loop.
C29_NoRetryAfterCancel ==
    [][bo.ctxDone =>
          /\ (bo.pc = "op" => bo'.pc \in {"op", "idle"})
          /\ (bo.pc = "sleep" => bo'.pc \in {"sleep", "idle"})
          /\ (bo.pc \in {"op", "sleep"} /\ bo'.pc = "idle" /\ bo'.ret # "nil")
                => bo'.ret = "error" /\ bo'.stopped]_vars

\* A call of sendResource that had failed once and had retries left has
\* returned its error because its context was cancelled.
C29_StoppedByCancel ==
    /\ bo.loop = "sendResource" /\ bo.pc = "idle"
    /\ bo.stopped /\ bo.ret = "error"
    /\ bo.fails = 1

\* ---------------------------------------------------------------------- C22
\* C22: an upload that failed because the media type is unknown (no MIME
\* type for the extension, or a type that is neither image nor video) has
\* given a result with uploaded unchanged and has sent no alert.
C22_UnknownTypeNoAlert ==
    (sr.pc = "done" /\ sr.mime \notin {"image", "video"})
        => (sr.uploaded = "unchanged" /\ sr.alerts = 0)

\* ---------------------------------------------------------------------- C23
\* C23: the upload of a media file sends no PUT, whatever the answers to
\* its POSTs.
C23_MediaNeverPuts == sr.puts = 0

\* ---------------------------------------------------------------------- C27
\* C27: once a POST of a resource without PUT URL has been answered 409 or
\* 500, the call has ended in that same attempt with the error 'POST failed
\* and there is no PUT'.
C27_NoPutIsPermanent ==
    (sr.conflictAt # 0 /\ ~sr.ctxDone) =>
        /\ sr.pc = "done"
        /\ sr.ret = "POST failed and there is no PUT"
        /\ sr.attempts = sr.conflictAt

\* ---------------------------------------------------------------------- C28
\* C28: a sendResource call with maxRetries = 3 runs its operation at most
\* 4 times, and once the building of a request or of a body has failed the
\* call has ended with that error in that same attempt.
C28_BoundedAttempts ==
    /\ sr.attempts <= maxRetries + 1
    /\ sr.buildFailAt # 0 =>
          (sr.pc = "done" /\ sr.ret = "build" /\ sr.attempts = sr.buildFailAt)

\* ---------------------------------------------------------------------- C31
\* C31: after Remap the map has no entry whose file does not exist and no
\* entry whose path is a directory, whatever the expiration; and an entry
\* Remap dropped had a non-zero uploaded time older than an expiration
\* greater than 0.
C31_RemapDropsStale ==
    rm.pc = "done" =>
        /\ \A p \in Paths :
              rm.history[p].present => rm.fs[p] \notin {"missing", "dir", "fulldir"}
        /\ \A p \in rm.dropped :
              /\ rm.expiration > 0
              /\ rm.before[p].Uploaded # 0
              /\ rm.now - rm.before[p].Uploaded > rm.expiration

\* ---------------------------------------------------------------------- C32
\* C32: the attender logs in again for a denied token only once: when it
\* enters httpAuth for a fresh query, the token its client was denied with
\* is still the last one granted (no other client's query has renewed it
\* meanwhile), so k clients denied with one token cause one login, not k.
C32_SingleRelogin ==
    (watchPc = "login" /\ serving.fresh) => client[serving.from].Token = granted

\* ---------------------------------------------------------------------- C40
\* C40: a Do whose token came from a login made for its own query (the
\* reply is not marked cached) and whose request was answered 401 or 403
\* has returned that answer: one send, no fresh query.
C40_FreshDenialReturned ==
    \A k \in Clients :
        (client[k].first \in {"401", "403"} /\ ~client[k].Cached) =>
            /\ client[k].pc = "returned"
            /\ client[k].ret = client[k].first
            /\ client[k].sends = 1
            /\ client[k].freshCalls = 0

C40_DeniedWithOwnLogin ==
    \E k \in Clients :
        /\ client[k].first \in {"401", "403"}
        /\ ~client[k].Cached
        /\ client[k].Token = granted
        /\ client[k].pc = "returned"

\* ---------------------------------------------------------------------- C33
\* C33: Close always returns: no call of Close panics by closing the stop
\* channel a second time, and a call that waits for the producer has
\* signalled it and has a reader exhausting the pipe, so the producer can
\* finish.
C33_CloseReturns ==
    /\ fc.panic # "close of closed channel"
    /\ \A x \in Closers :
          (fc.close[x].pc = "wait" /\ fc.close[x].wg /\ fc.prod # "done") =>
              (fc.stopClosed /\ fc.drainers > 0)

\* ---------------------------------------------------------------------- C34
\* C34: WatchFolder never emits the empty folder name, and the supervisor
\* never starts a watcher on it.
C34_NoEmptyFolder ==
    /\ \A i \in 1..Len(wf.folderChan) : wf.folderChan[i] # ""
    /\ \A i \in 1..Len(wf.started) : wf.started[i] # ""

\* ---------------------------------------------------------------------- C35
\* C35: the step in which dispatch processes the result of a debouncer
\* closes no event channel but the one that debouncer was given.
C35_ResultClosesOwnChannel ==
    [][(TaskTaken /\ dispatchPc = "loop" /\ dispatchPc' = "loop") =>
          \A c \in Chans :
              (chans'[c].closed /\ ~chans[c].closed) => c = Head(tasks).Events]_vars

C37_DrainEnds ==
    \A c \in Chans : (deb[c].pc = "draining") ~> (deb[c].pc = "done")

\* ---------------------------------------------------------------------- C38
\* C38: after the context of the watcher is cancelled the merge goroutine
\* eventually returns.
C38_MergeReturns == mg.ctxDone ~> (mg.pc = "returned")

==============================================================================
